---------------------------- MODULE Spec2Model ----------------------------
(***************************************************************************)
(* Model of the survey scoring core (src/src/lib/scoring.ts): the          *)
(* choice-data parser, resolveRawScore, questionMinMax, clamp01,           *)
(* computeScores and pickRange.                                            *)
(*                                                                         *)
(* Representation.                                                         *)
(*   - A JS string is a sequence of one-character strings.                 *)
(*   - A JS value is a tagged record: Null, Undef, Str(s), Num(n), Arr(xs).*)
(*   - Choice scores, weights and ratings are integers; a number that may  *)
(*     be NaN is an option: << >> is NaN, <<n>> is the number n.           *)
(*   - A quotient is an exact fraction [n, d] with d > 0, in lowest terms. *)
(*   - A percentage rounded by toFixed(2) is an integer count of           *)
(*     hundredths (5000 is 50.00).                                         *)
(***************************************************************************)
EXTENDS Integers, Sequences, FiniteSets, TLC

(***************************************************************************)
(* Bounds of the model.                                                    *)
(***************************************************************************)
\* longest list of choices of a question
MaxChoices == 3
\* most labels selected in one multi-choice answer
MaxSelected == 2
\* most categories of a survey, and most questions of a survey
MaxCats == 2
MaxQuestions == 3
\* largest percentage handed to pickRange, and most ranges of one scope
MaxPercent == 4
MaxRanges == 2
\* the questions of the category of a mixed survey
MaxMixed == 2
\* the characters of a text handed to the parser
MaxText == 3
\* the characters of a label whose encodings are parsed
MaxLabel == 2
\* the ranges added to one scope in the range manager
MaxAdds == 3
\* the questions of a category of a survey scored from the stored scores
MaxStored == 2
\* the runs of the results page's loading effect
MaxRuns == 2
\* the calls of handleSubmit on one take-survey page
MaxCalls == 3
\* the questions of a survey being taken, and the options picked on it
MaxFlat == 4
MaxPicks == 5
\* the invocations of handleFinish
MaxFinishes == 2

(***************************************************************************)
(* JS values.                                                              *)
(***************************************************************************)
Null == [t |-> "null"]
Undef == [t |-> "undef"]
Str(s) == [t |-> "str", s |-> s]
Num(n) == [t |-> "num", n |-> n]
Arr(xs) == [t |-> "arr", xs |-> xs]

\* value == null (null or undefined)
IsNullish(v) == v.t \in {"null", "undef"}

(***************************************************************************)
(* Strings.                                                                *)
(***************************************************************************)
SP == " "
COMMA == ","
QUOTE == "\""
BACKSLASH == "\\"
Digits == <<"0", "1", "2", "3", "4", "5", "6", "7", "8", "9">>

IsDigit(c) == \E i \in 1..10 : Digits[i] = c
DigitVal(c) == (CHOOSE i \in 1..10 : Digits[i] = c) - 1

Max2(a, b) == IF a >= b THEN a ELSE b
Min2(a, b) == IF a <= b THEN a ELSE b

\* String.prototype.trim: the string without its leading and trailing blanks
RECURSIVE TrimLeft(_)
TrimLeft(s) == IF s # <<>> /\ Head(s) = SP THEN TrimLeft(Tail(s)) ELSE s
RECURSIVE TrimRight(_)
TrimRight(s) ==
  IF s # <<>> /\ s[Len(s)] = SP THEN TrimRight(SubSeq(s, 1, Len(s) - 1)) ELSE s
Trim(s) == TrimRight(TrimLeft(s))

StartsWith(s, c) == s # <<>> /\ Head(s) = c
EndsWith(s, c) == s # <<>> /\ s[Len(s)] = c

\* position of the first c in s at or after position i, 0 if there is none
RECURSIVE IndexFrom(_, _, _)
IndexFrom(s, c, i) ==
  IF i > Len(s) THEN 0
  ELSE IF s[i] = c THEN i
  ELSE IndexFrom(s, c, i + 1)

\* String.prototype.split(','): the pieces between the commas, empty ones kept
RECURSIVE SplitComma(_)
SplitComma(s) ==
  LET k == IndexFrom(s, COMMA, 1)
  IN IF k = 0 THEN <<s>>
     ELSE <<SubSeq(s, 1, k - 1)>> \o SplitComma(SubSeq(s, k + 1, Len(s)))

\* Array.prototype.join(sep)
RECURSIVE Join(_, _)
Join(xs, sep) ==
  IF xs = <<>> THEN <<>>
  ELSE IF Len(xs) = 1 THEN xs[1]
  ELSE xs[1] \o sep \o Join(Tail(xs), sep)

\* the decimal digits of a natural number
RECURSIVE NatToStr(_)
NatToStr(n) ==
  IF n < 10 THEN <<Digits[n + 1]>>
  ELSE NatToStr(n \div 10) \o <<Digits[(n % 10) + 1]>>
IntToStr(n) == IF n < 0 THEN <<"-">> \o NatToStr(0 - n) ELSE NatToStr(n)

RECURSIVE StrToNat(_, _)
StrToNat(s, acc) ==
  IF s = <<>> THEN acc ELSE StrToNat(Tail(s), 10 * acc + DigitVal(Head(s)))
AllDigits(s) == s # <<>> /\ \A i \in 1..Len(s) : IsDigit(s[i])

\* Number(string): blank text is 0, an optionally signed run of digits is that
\* integer, anything else is NaN (<< >>)
NumberOfStr(s) ==
  LET u == Trim(s)
  IN IF u = <<>> THEN <<0>>
     ELSE IF AllDigits(u) THEN <<StrToNat(u, 0)>>
     ELSE IF Head(u) \in {"-", "+"} /\ AllDigits(Tail(u))
       THEN <<(IF Head(u) = "-" THEN 0 - 1 ELSE 1) * StrToNat(Tail(u), 0)>>
     ELSE <<>>

\* String(value) for a scalar or a flat array
RECURSIVE ToStr(_)
ToStr(v) ==
  CASE v.t = "str" -> v.s
    [] v.t = "num" -> IntToStr(v.n)
    [] v.t = "null" -> <<"n", "u", "l", "l">>
    [] v.t = "undef" -> <<"u", "n", "d", "e", "f", "i", "n", "e", "d">>
    [] v.t = "arr" ->
         Join([i \in 1..Len(v.xs) |->
                 IF IsNullish(v.xs[i]) THEN <<>> ELSE ToStr(v.xs[i])], <<COMMA>>)

\* Number(value)
NumberOf(v) ==
  CASE v.t = "num" -> <<v.n>>
    [] v.t = "null" -> <<0>>
    [] v.t = "undef" -> <<>>
    [] OTHER -> NumberOfStr(ToStr(v))

\* Array.prototype.indexOf, 1-based; 0 when nothing is found (-1)
RECURSIVE IndexOfFrom(_, _, _)
IndexOfFrom(xs, x, i) ==
  IF i > Len(xs) THEN 0
  ELSE IF xs[i] = x THEN i
  ELSE IndexOfFrom(xs, x, i + 1)
IndexOf(xs, x) == IndexOfFrom(xs, x, 1)

\* labels.findIndex(label => String(label).trim() === x), 1-based, 0 for -1
RECURSIVE FindTrimmedFrom(_, _, _)
FindTrimmedFrom(xs, x, i) ==
  IF i > Len(xs) THEN 0
  ELSE IF Trim(xs[i]) = x THEN i
  ELSE FindTrimmedFrom(xs, x, i + 1)
FindTrimmed(xs, x) == FindTrimmedFrom(xs, x, 1)

(***************************************************************************)
(* JSON.parse, for the texts parseArrayish hands it: an array of strings   *)
(* (with the escapes \" and \\), integers and nulls, or one string.  Any  *)
(* other text makes                                                        *)
(* JSON.parse throw.  A result is an option: << >> when it throws, <<v>>   *)
(* when it returns v.                                                      *)
(***************************************************************************)
RECURSIVE SkipBlanks(_, _)
SkipBlanks(s, i) == IF i <= Len(s) /\ s[i] = SP THEN SkipBlanks(s, i + 1) ELSE i

\* the position after the run of digits starting at i
RECURSIVE SkipDigits(_, _)
SkipDigits(s, i) == IF i <= Len(s) /\ IsDigit(s[i]) THEN SkipDigits(s, i + 1) ELSE i

\* the JSON string whose opening quote precedes position i, acc holding the
\* characters read so far: [ok, v, next]
RECURSIVE JsonStringFrom(_, _, _)
JsonStringFrom(s, i, acc) ==
  IF i > Len(s) THEN [ok |-> FALSE, v |-> Null, next |-> i]
  ELSE IF s[i] = QUOTE THEN [ok |-> TRUE, v |-> Str(acc), next |-> i + 1]
  ELSE IF s[i] = BACKSLASH THEN
    (IF i + 1 <= Len(s) /\ s[i + 1] \in {QUOTE, BACKSLASH}
       THEN JsonStringFrom(s, i + 2, Append(acc, s[i + 1]))
       ELSE [ok |-> FALSE, v |-> Null, next |-> i])
  ELSE JsonStringFrom(s, i + 1, Append(acc, s[i]))

\* one JSON value starting at position i: [ok, v, next]
JsonValueAt(s, i) ==
  LET bad == [ok |-> FALSE, v |-> Null, next |-> i]
  IN IF i > Len(s) THEN bad
     ELSE IF s[i] = QUOTE THEN JsonStringFrom(s, i + 1, <<>>)
     ELSE IF IsDigit(s[i]) \/ s[i] = "-" THEN
       LET d == IF s[i] = "-" THEN i + 1 ELSE i
           e == SkipDigits(s, d)
       IN IF e = d THEN bad
          ELSE [ok |-> TRUE, v |-> Num(NumberOfStr(SubSeq(s, i, e - 1))[1]),
                next |-> e]
     ELSE IF i + 3 <= Len(s) /\ SubSeq(s, i, i + 3) = <<"n", "u", "l", "l">>
       THEN [ok |-> TRUE, v |-> Null, next |-> i + 4]
     ELSE bad

\* the elements of a JSON array from position i (after "[" or after a comma)
RECURSIVE JsonElems(_, _)
JsonElems(s, i) ==
  LET r == JsonValueAt(s, SkipBlanks(s, i))
      j == SkipBlanks(s, r.next)
  IN IF ~r.ok \/ j > Len(s) THEN <<>>
     ELSE IF s[j] = "]" THEN
       (IF SkipBlanks(s, j + 1) > Len(s) THEN <<(<<r.v>>)>> ELSE <<>>)
     ELSE IF s[j] = COMMA THEN
       LET rest == JsonElems(s, j + 1)
       IN IF rest = <<>> THEN <<>> ELSE <<(<<r.v>> \o rest[1])>>
     ELSE <<>>

JsonParse(s) ==
  LET i == SkipBlanks(s, 1)
  IN IF i > Len(s) THEN <<>>
     ELSE IF s[i] = "[" THEN
       LET j == SkipBlanks(s, i + 1)
       IN IF j <= Len(s) /\ s[j] = "]"
            THEN (IF SkipBlanks(s, j + 1) > Len(s) THEN <<Arr(<<>>)>> ELSE <<>>)
            ELSE LET es == JsonElems(s, i + 1)
                 IN IF es = <<>> THEN <<>> ELSE <<Arr(es[1])>>
     ELSE LET r == JsonValueAt(s, i)
          IN IF r.ok /\ SkipBlanks(s, r.next) > Len(s) THEN <<r.v>> ELSE <<>>

(***************************************************************************)
(* The choice-data parser.                                                 *)
(***************************************************************************)
\* inner.match(/"([^"]*)"|[^,]+/g): the successive matches from position i
RECURSIVE PgMatches(_, _)
PgMatches(inner, i) ==
  IF i > Len(inner) THEN <<>>
  ELSE LET k == IF inner[i] = QUOTE THEN IndexFrom(inner, QUOTE, i + 1) ELSE 0
       IN IF k > 0
            THEN <<SubSeq(inner, i, k)>> \o PgMatches(inner, k + 1)
            ELSE IF inner[i] = COMMA THEN PgMatches(inner, i + 1)
            ELSE LET c == IndexFrom(inner, COMMA, i)
                     e == IF c = 0 THEN Len(inner) ELSE c - 1
                 IN <<SubSeq(inner, i, e)>> \o PgMatches(inner, e + 1)

\* p.replace(/^"|"$/g, ''): one leading and one trailing quote removed
StripQuotes(p) ==
  LET a == IF StartsWith(p, QUOTE) THEN Tail(p) ELSE p
  IN IF EndsWith(a, QUOTE) THEN SubSeq(a, 1, Len(a) - 1) ELSE a

\* the Postgres array branch of parseArrayish, for s = "{...}"
PgParse(s) ==
  LET inner == SubSeq(s, 2, Len(s) - 1)
      parts == PgMatches(inner, 1)
  IN [i \in 1..Len(parts) |-> StripQuotes(parts[i])]

\* the string branch of parseArrayish
ParseArrayishStr(str) ==
  LET s == Trim(str)
      tryJson == \/ (StartsWith(s, "[") /\ EndsWith(s, "]"))
                 \/ (StartsWith(s, QUOTE) /\ EndsWith(s, QUOTE))
      parsed == IF tryJson THEN JsonParse(s) ELSE <<>>
  IN IF tryJson /\ parsed # <<>> THEN
       (IF parsed[1].t = "arr"
          THEN [i \in 1..Len(parsed[1].xs) |-> ToStr(parsed[1].xs[i])]
          ELSE <<>>)
     ELSE IF StartsWith(s, "{") /\ EndsWith(s, "}") THEN PgParse(s)
     ELSE <<s>>

\* the parser without its test for null and undefined
parseArrayish_NoNullTest(input) ==
  IF input.t = "arr" THEN [i \in 1..Len(input.xs) |-> ToStr(input.xs[i])]
  ELSE IF input.t = "str" THEN ParseArrayishStr(input.s)
  ELSE <<ToStr(input)>>

parseArrayish(input) ==
  IF IsNullish(input) THEN <<>>
  ELSE IF input.t = "arr" THEN [i \in 1..Len(input.xs) |-> ToStr(input.xs[i])]
  ELSE IF input.t = "str" THEN ParseArrayishStr(input.s)
  ELSE <<ToStr(input)>>

\* raw.map(v => Number(v)).filter(v => !Number.isNaN(v))
RECURSIVE DropNaN(_)
DropNaN(raw) ==
  IF raw = <<>> THEN <<>>
  ELSE NumberOfStr(Head(raw)) \o DropNaN(Tail(raw))

parseNumberArrayish(input) == DropNaN(parseArrayish(input))

\* value.split(',').map(s => s.trim()).filter(Boolean)
RECURSIVE TrimmedNonEmpty(_)
TrimmedNonEmpty(parts) ==
  IF parts = <<>> THEN <<>>
  ELSE (IF Trim(Head(parts)) = <<>> THEN <<>> ELSE <<Trim(Head(parts))>>)
       \o TrimmedNonEmpty(Tail(parts))

asArrayOfStrings(value) ==
  IF value.t = "arr" THEN [i \in 1..Len(value.xs) |-> ToStr(value.xs[i])]
  ELSE IF value.t = "str" THEN TrimmedNonEmpty(SplitComma(value.s))
  ELSE IF IsNullish(value) THEN <<>>
  ELSE <<ToStr(value)>>

(***************************************************************************)
(* Exact fractions for the quotients the scorer computes.                  *)
(***************************************************************************)
Abs(x) == IF x < 0 THEN 0 - x ELSE x

RECURSIVE GCD(_, _)
GCD(a, b) == IF b = 0 THEN a ELSE GCD(b, a % b)

\* n / d for d # 0, in lowest terms with a positive denominator
Frac(n, d) ==
  LET g == GCD(Abs(n), Abs(d))
      sgn == IF d < 0 THEN 0 - 1 ELSE 1
  IN [n |-> (sgn * n) \div g, d |-> (sgn * d) \div g]

FracOfInt(k) == [n |-> k, d |-> 1]
FracAdd(x, y) == Frac(x.n * y.d + y.n * x.d, x.d * y.d)
FracMul(x, y) == Frac(x.n * y.n, x.d * y.d)
FracDivInt(x, k) == Frac(x.n, x.d * k)
FracLess(x, y) == x.n * y.d < y.n * x.d
FracLeq(x, y) == x.n * y.d <= y.n * x.d

\* Number(x.toFixed(2)) for x >= 0, as a count of hundredths
toFixed2(x) == (200 * x.n + x.d) \div (2 * x.d)

(***************************************************************************)
(* The scorer.                                                             *)
(***************************************************************************)
\* (q.type || '').toLowerCase(), on the type names the surveys use
toLowerCase(type) ==
  CASE type = "Checkbox" -> "checkbox"
    [] type = "Rating" -> "rating"
    [] type = "Radio" -> "radio"
    [] OTHER -> type

\* clamp01: v is an option, << >> being NaN
clamp01_NoUpperBound(v) ==
  IF v = <<>> THEN FracOfInt(0)
  ELSE IF FracLess(v[1], FracOfInt(0)) THEN FracOfInt(0)
  ELSE v[1]

clamp01(v) ==
  IF v = <<>> THEN FracOfInt(0)
  ELSE IF FracLess(v[1], FracOfInt(0)) THEN FracOfInt(0)
  ELSE IF FracLess(FracOfInt(1), v[1]) THEN FracOfInt(1)
  ELSE v[1]

\* scores[idx] ?? 0, idx 1-based
ScoreAt(scores, idx) == IF idx >= 1 /\ idx <= Len(scores) THEN scores[idx] ELSE 0

\* value[0] of an array value, the value itself otherwise
FirstOrSelf(value) ==
  IF value.t = "arr" THEN (IF value.xs = <<>> THEN Undef ELSE value.xs[1])
  ELSE value

\* selected.reduce(...): the sum, over the selected labels, of the score at the
\* position labels.indexOf(label) gives
RECURSIVE SumSelected(_, _, _)
SumSelected(selected, labels, scores) ==
  IF selected = <<>> THEN 0
  ELSE LET idx == IndexOf(labels, Head(selected))
       IN (IF idx >= 1 THEN ScoreAt(scores, idx) ELSE 0)
          + SumSelected(Tail(selected), labels, scores)

\* the position a single-choice answer resolves to, 1-based, 0 when not found
SingleIndex(labels, picked) ==
  LET Retry(idx, pickedTrimmed) ==
        IF idx = 0 THEN FindTrimmed(labels, pickedTrimmed) ELSE idx
      Find(pickedTrimmed) == Retry(IndexOf(labels, pickedTrimmed), pickedTrimmed)
  IN Find(Trim(ToStr(picked)))

\* resolveRawScore(q, a): a is an option, << >> when the question has no answer
resolveRawScore(q, a) ==
  LET Checkbox(selected, labels, scores) ==
        IF selected = <<>> \/ labels = <<>> \/ scores = <<>> THEN 0
        ELSE SumSelected(selected, labels, scores)
      Rating(n) == IF n = <<>> THEN 0 ELSE n[1]
      AtIndex(idx, scores) == IF idx = 0 THEN 0 ELSE ScoreAt(scores, idx)
      Single(picked, labels, scores) ==
        IF IsNullish(picked) THEN 0
        ELSE AtIndex(SingleIndex(labels, picked), scores)
      Resolve(labels, scores, type, value) ==
        IF type = "checkbox" THEN Checkbox(asArrayOfStrings(value), labels, scores)
        ELSE IF type = "rating" THEN Rating(NumberOf(FirstOrSelf(value)))
        ELSE Single(FirstOrSelf(value), labels, scores)
  IN IF a = <<>> THEN 0
     ELSE Resolve(parseArrayish(q.choices), parseNumberArrayish(q.choice_scores),
                  toLowerCase(q.type), a[1].value)

RECURSIVE MinOfSeq(_)
MinOfSeq(xs) == IF Len(xs) = 1 THEN xs[1] ELSE Min2(xs[1], MinOfSeq(Tail(xs)))
RECURSIVE MaxOfSeq(_)
MaxOfSeq(xs) == IF Len(xs) = 1 THEN xs[1] ELSE Max2(xs[1], MaxOfSeq(Tail(xs)))

\* questionMinMax(q); q.max_score is an option, << >> when it is no number
questionMinMax(q) ==
  LET MinMax(scores) ==
        IF scores # <<>> THEN [min |-> MinOfSeq(scores), max |-> MaxOfSeq(scores)]
        ELSE [min |-> 0,
              max |-> Max2(1, IF q.max_score # <<>> THEN q.max_score[1] ELSE 1)]
  IN MinMax(parseNumberArrayish(q.choice_scores))

\* the default value of the opts parameter
DefaultOpts ==
  [given |-> TRUE, treatMissingAsZero |-> "true",
   useQuestionWeights |-> "false", useCategoryWeights |-> "false"]

\* the opts the body of computeScores reads: the default only when the argument
\* is omitted (given = FALSE), the caller's object as it is otherwise
EffectiveOpts(optsArg) == IF optsArg.given THEN optsArg ELSE DefaultOpts

\* a switch read in a condition: undefined is falsy
Truthy(switch) == switch = "true"

\* ansMap.get(id): the last answer of the list with that question_id, as an option
RECURSIVE AnsMapGet(_, _)
AnsMapGet(answers, id) ==
  IF answers = <<>> THEN <<>>
  ELSE LET last == answers[Len(answers)]
       IN IF last.question_id = id THEN <<last>>
          ELSE AnsMapGet(SubSeq(answers, 1, Len(answers) - 1), id)

\* max === min ? (raw > min ? 1 : 0) : (raw - min) / (max - min), as an option
normalize_GreaterOrEqual(raw, min, max) ==
  IF max = min THEN <<FracOfInt(IF raw >= min THEN 1 ELSE 0)>>
  ELSE <<Frac(raw - min, max - min)>>

normalize(raw, min, max) ==
  IF max = min THEN <<FracOfInt(IF raw > min THEN 1 ELSE 0)>>
  ELSE <<Frac(raw - min, max - min)>>

\* the weight taken whether or not the switch is on
WeightOf_IgnoresSwitch(use, w) == IF w # <<>> /\ w[1] > 0 THEN w[1] ELSE 1

\* opts.useXWeights && typeof w === 'number' && w > 0 ? w : 1; w is an option
WeightOf(use, w) == IF Truthy(use) /\ w # <<>> /\ w[1] > 0 THEN w[1] ELSE 1

\* the raw score taken from the answer row's stored score when it holds one
QuestionStep_UsesStoredScore(q, answers, opts) ==
  LET Step(a, mm, raw) ==
        [id |-> q.id,
         counted |-> ~(q.scorable = "false"
                       \/ (a = <<>> /\ ~Truthy(opts.treatMissingAsZero))),
         answered |-> a # <<>>, raw |-> raw, min |-> mm.min, max |-> mm.max,
         qNorm |-> clamp01(normalize(raw, mm.min, mm.max)),
         qW |-> WeightOf(opts.useQuestionWeights, q.weight)]
      Stored(a, raw) == IF a # <<>> /\ a[1].score # <<>> THEN a[1].score[1] ELSE raw
  IN Step(AnsMapGet(answers, q.id), questionMinMax(q),
          Stored(AnsMapGet(answers, q.id),
                 resolveRawScore(q, AnsMapGet(answers, q.id))))

\* one iteration of the loop over a category's questions: what the question
\* adds to catAccum and catWeight (counted = FALSE when the loop continues)
QuestionStep(q, answers, opts) ==
  LET Step(a, mm, raw) ==
        [id |-> q.id,
         counted |-> ~(q.scorable = "false"
                       \/ (a = <<>> /\ ~Truthy(opts.treatMissingAsZero))),
         answered |-> a # <<>>, raw |-> raw, min |-> mm.min, max |-> mm.max,
         qNorm |-> clamp01(normalize(raw, mm.min, mm.max)),
         qW |-> WeightOf(opts.useQuestionWeights, q.weight)]
  IN Step(AnsMapGet(answers, q.id), questionMinMax(q),
          resolveRawScore(q, AnsMapGet(answers, q.id)))

\* the sum of normalized x weight with the skipped questions added too
RECURSIVE SumAccum_CountsSkipped(_)
SumAccum_CountsSkipped(steps) ==
  IF steps = <<>> THEN FracOfInt(0)
  ELSE FracAdd(FracMul(Head(steps).qNorm, FracOfInt(Head(steps).qW)),
               SumAccum_CountsSkipped(Tail(steps)))

RECURSIVE SumAccum(_)
SumAccum(steps) ==
  IF steps = <<>> THEN FracOfInt(0)
  ELSE FracAdd(IF Head(steps).counted
                 THEN FracMul(Head(steps).qNorm, FracOfInt(Head(steps).qW))
                 ELSE FracOfInt(0),
               SumAccum(Tail(steps)))

\* the sum of the weights with the skipped questions counted too
RECURSIVE SumWeight_CountsSkipped(_)
SumWeight_CountsSkipped(steps) ==
  IF steps = <<>> THEN 0
  ELSE Head(steps).qW + SumWeight_CountsSkipped(Tail(steps))

RECURSIVE SumWeight(_)
SumWeight(steps) ==
  IF steps = <<>> THEN 0
  ELSE (IF Head(steps).counted THEN Head(steps).qW ELSE 0) + SumWeight(Tail(steps))

\* what one iteration of the loop over the categories leaves, given the
\* iterations of its loop over the questions
CategoryTotals(cat, opts, steps) ==
  LET catAccum == SumAccum(steps)
      catWeight == SumWeight(steps)
  IN [title |-> cat.title, steps |-> steps, catAccum |-> catAccum,
      catWeight |-> catWeight,
      catPct |-> IF catWeight > 0
                   THEN FracMul(FracDivInt(catAccum, catWeight), FracOfInt(100))
                   ELSE FracOfInt(0),
      catW |-> WeightOf(opts.useCategoryWeights, cat.weight)]

\* one iteration of the loop over the categories
CategoryStep(cat, answers, opts) ==
  CategoryTotals(cat, opts, [i \in 1..Len(cat.questions) |->
                               QuestionStep(cat.questions[i], answers, opts)])

RECURSIVE TotalAccum(_)
TotalAccum(cs) ==
  IF cs = <<>> THEN FracOfInt(0)
  ELSE FracAdd(FracMul(Head(cs).catPct, FracOfInt(Head(cs).catW)),
               TotalAccum(Tail(cs)))

\* the sum of the weights of the categories that counted a question
RECURSIVE TotalWeight_SkipsEmpty(_)
TotalWeight_SkipsEmpty(cs) ==
  IF cs = <<>> THEN 0
  ELSE (IF Head(cs).catWeight > 0 THEN Head(cs).catW ELSE 0)
       + TotalWeight_SkipsEmpty(Tail(cs))

RECURSIVE TotalWeight(_)
TotalWeight(cs) == IF cs = <<>> THEN 0 ELSE Head(cs).catW + TotalWeight(Tail(cs))

\* the first category with that title instead of the last
LastWithTitle_First(cs, title) ==
  cs[CHOOSE i \in 1..Len(cs) :
       /\ cs[i].title = title
       /\ \A j \in 1..(i - 1) : cs[j].title # title]

\* categoryPercents[title]: the assignment of the last category with that title
LastWithTitle(cs, title) ==
  cs[CHOOSE i \in 1..Len(cs) :
       /\ cs[i].title = title
       /\ \A j \in (i + 1)..Len(cs) : cs[j].title # title]

\* what computeScores returns, given the iterations of its loop over the
\* categories (kept in cats)
ScoresOf(cs) ==
  LET totalWeight == TotalWeight(cs)
  IN [categoryPercents |->
        [t \in {cs[i].title : i \in 1..Len(cs)} |->
           toFixed2(LastWithTitle(cs, t).catPct)],
      totalPercent |-> IF totalWeight > 0
                         THEN toFixed2(FracDivInt(TotalAccum(cs), totalWeight))
                         ELSE 0,
      cats |-> cs]

\* computeScores(categories, answers, opts)
computeScores(cats, answs, optsArg) ==
  ScoresOf([i \in 1..Len(cats) |->
              CategoryStep(cats[i], answs, EffectiveOpts(optsArg))])

(***************************************************************************)
(* The results page (pages/surveys/index.js): the percentages it computes  *)
(* from the answers' stored score fields.                                  *)
(***************************************************************************)
\* raw.replace(/^"(.*)"$/, '$1')
UnquoteWhole(raw) ==
  IF Len(raw) >= 2 /\ Head(raw) = QUOTE /\ raw[Len(raw)] = QUOTE
    THEN SubSeq(raw, 2, Len(raw) - 1)
    ELSE raw

\* parsePgArrayString(s) for a string s, as an option: << >> for null
parsePgArrayString(s) ==
  LET Pieces(parts) == [i \in 1..Len(parts) |-> Str(UnquoteWhole(Trim(parts[i])))]
      Inner(inner) == IF Trim(inner) = <<>> THEN <<>> ELSE Pieces(SplitComma(inner))
  IN IF ~(StartsWith(s, "{") /\ EndsWith(s, "}")) THEN <<>>
     ELSE <<Inner(SubSeq(s, 2, Len(s) - 1))>>

\* parseJsonOrPgArray(maybe): the elements, as JS values
parseJsonOrPgArray(maybe) ==
  LET FromPg(pg) == IF pg = <<>> THEN <<>> ELSE pg[1]
      FromJson(v, str) ==
        IF v = <<>> THEN FromPg(parsePgArrayString(str))
        ELSE IF v[1].t = "arr" THEN v[1].xs
        ELSE <<>>
  IN IF IsNullish(maybe) THEN <<>>
     ELSE IF maybe.t = "arr" THEN maybe.xs
     ELSE IF maybe.t = "str" THEN FromJson(JsonParse(maybe.s), maybe.s)
     ELSE <<>>

\* asNumberArray(arr): Number(x) of every element, the non-finite ones dropped
RECURSIVE asNumberArray(_)
asNumberArray(arr) ==
  IF arr = <<>> THEN <<>>
  ELSE NumberOf(Head(arr)) \o asNumberArray(Tail(arr))

\* the clamp that lets a value above hi through
clamp_NoUpperBound(v, lo, hi) == IF FracLess(v, lo) THEN lo ELSE v

\* clamp(v, lo, hi) == Math.max(lo, Math.min(hi, v))
clamp(v, lo, hi) ==
  IF FracLess(v, lo) THEN lo ELSE IF FracLess(hi, v) THEN hi ELSE v

\* the normalized value of one question, given its numeric choice scores,
\* its max_score (an option) and the answer's raw score
NormalizedOnPage(scoresArr, max_score, raw) ==
  LET Norm(qMin, qMax) ==
        IF qMax = qMin THEN FracOfInt(IF raw > qMin THEN 1 ELSE 0)
        ELSE clamp(Frac(raw - qMin, qMax - qMin), FracOfInt(0), FracOfInt(1))
  IN IF scoresArr # <<>> THEN Norm(MinOfSeq(scoresArr), MaxOfSeq(scoresArr))
     ELSE Norm(0, IF max_score # <<>> THEN max_score[1] ELSE 1)

\* Number(a?.score ?? 0): a is an option, and so is its score
RawOnPage(a) == IF a = <<>> \/ a[1].score = <<>> THEN 0 ELSE a[1].score[1]

\* normSum after the loop over the questions qs of one category
RECURSIVE NormSumOnPage(_, _)
NormSumOnPage(qs, answs) ==
  IF qs = <<>> THEN FracOfInt(0)
  ELSE FracAdd(NormalizedOnPage(asNumberArray(parseJsonOrPgArray(Head(qs).choice_scores)),
                                Head(qs).max_score,
                                RawOnPage(AnsMapGet(answs, Head(qs).id))),
               NormSumOnPage(Tail(qs), answs))

\* pct of one category: qCount > 0 ? (normSum / qCount) * 100 : 0
PctOnPage(cat, answs) ==
  IF Len(cat.questions) > 0
    THEN FracMul(FracDivInt(NormSumOnPage(cat.questions, answs), Len(cat.questions)),
                 FracOfInt(100))
    ELSE FracOfInt(0)

\* values.reduce((s, v) => s + v, 0) over the entries of perCat
RECURSIVE SumOfEntries(_, _)
SumOfEntries(perCat, titles) ==
  IF titles = {} THEN FracOfInt(0)
  ELSE LET t == CHOOSE x \in titles : TRUE
       IN FracAdd(perCat[t], SumOfEntries(perCat, titles \ {t}))

\* total, given perCat (keyed by title)
TotalOnPage(perCat) ==
  IF DOMAIN perCat # {}
    THEN FracDivInt(SumOfEntries(perCat, DOMAIN perCat), Cardinality(DOMAIN perCat))
    ELSE FracOfInt(0)

\* perCat[cat.title] = pct in list order: the last category of a title stays
PerCatOnPage(cats, answs) ==
  [t \in {cats[c].title : c \in 1..Len(cats)} |->
     PctOnPage(cats[CHOOSE c \in 1..Len(cats) :
                      /\ cats[c].title = t
                      /\ \A d \in (c + 1)..Len(cats) : cats[d].title # t], answs)]

\* what the useMemo over [categories, answers] returns
scoresMemo(cats, answs) ==
  [categoryPercents |-> PerCatOnPage(cats, answs),
   totalPercent |-> TotalOnPage(PerCatOnPage(cats, answs))]

(***************************************************************************)
(* The range classifier.  percent is a count of hundredths.                *)
(***************************************************************************)
\* Math.round(percent) for percent >= 0
MathRound(hundredths) == (hundredths + 50) \div 100

\* find returning the last range that holds p instead of the first
RECURSIVE FindRangeFrom_LastMatch(_, _, _)
FindRangeFrom_LastMatch(rs, p, i) ==
  IF i > Len(rs) THEN 0
  ELSE IF FindRangeFrom_LastMatch(rs, p, i + 1) # 0
         THEN FindRangeFrom_LastMatch(rs, p, i + 1)
  ELSE IF p >= rs[i].min_score /\ p <= rs[i].max_score THEN i
  ELSE 0

\* ranges?.find(r => p >= r.min_score && p <= r.max_score) || null, as the
\* 1-based position of the range found, 0 for null
RECURSIVE FindRangeFrom(_, _, _)
FindRangeFrom(rs, p, i) ==
  IF i > Len(rs) THEN 0
  ELSE IF p >= rs[i].min_score /\ p <= rs[i].max_score THEN i
  ELSE FindRangeFrom(rs, p, i + 1)

\* the range test with the upper bound left out of the range
RECURSIVE FindRangeBelowMaxFrom(_, _, _)
FindRangeBelowMaxFrom(rs, p, i) ==
  IF i > Len(rs) THEN 0
  ELSE IF p >= rs[i].min_score /\ p < rs[i].max_score THEN i
  ELSE FindRangeBelowMaxFrom(rs, p, i + 1)

pickRange_MaxExclusive(pct, rs) ==
  IF IsNullish(rs) THEN 0 ELSE FindRangeBelowMaxFrom(rs.xs, MathRound(pct), 1)

\* pickRange(percent, ranges); ranges is an array, null or undefined
pickRange(pct, rs) ==
  IF IsNullish(rs) THEN 0 ELSE FindRangeFrom(rs.xs, MathRound(pct), 1)

\* the loop of the report handler's pickRange over ranges || []: the 1-based
\* position of the first range with n >= min_score && n <= max_score, 0 for
\* null.  n is a count of hundredths and is compared as it is; every range of
\* the model holds both bounds, so the defaults 0 and 100 are never taken
RECURSIVE ReportFindFrom(_, _, _)
ReportFindFrom(rs, n, i) ==
  IF i > Len(rs) THEN 0
  ELSE IF n >= 100 * rs[i].min_score /\ n <= 100 * rs[i].max_score THEN i
  ELSE ReportFindFrom(rs, n, i + 1)

\* pickRange(pct, ranges) of pages/api/reports/generate.ts
reportPickRange(pct, rs) ==
  ReportFindFrom(IF IsNullish(rs) THEN <<>> ELSE rs.xs, pct, 1)

(***************************************************************************)
(* Stored encodings of a choice list (scoring.ts lines 12-13): a native    *)
(* array, a JSON text, or a Postgres array text as the survey editor       *)
(* writes it.                                                              *)
(***************************************************************************)
\* s with a backslash put before every character of chars
RECURSIVE Escape(_, _)
Escape(s, chars) ==
  IF s = <<>> THEN <<>>
  ELSE (IF Head(s) \in chars THEN <<BACKSLASH, Head(s)>> ELSE <<Head(s)>>)
       \o Escape(Tail(s), chars)

\* JSON.stringify of a string, a number or null
JsonText(v) ==
  CASE v.t = "str" -> <<QUOTE>> \o Escape(v.s, {QUOTE, BACKSLASH}) \o <<QUOTE>>
    [] v.t = "num" -> IntToStr(v.n)
    [] OTHER -> <<"n", "u", "l", "l">>

\* `"${choice.replace(/"/g, '\\"')}"` for a label, Array.prototype.join's text
\* for a score
PgText(v) ==
  CASE v.t = "str" -> <<QUOTE>> \o Escape(v.s, {QUOTE}) \o <<QUOTE>>
    [] v.t = "num" -> IntToStr(v.n)
    [] OTHER -> <<>>

Encodings == {"array", "json", "pg"}

Encode(enc, elems) ==
  CASE enc = "array" -> Arr(elems)
    [] enc = "json" ->
         Str(<<"[">> \o Join([i \in 1..Len(elems) |-> JsonText(elems[i])], <<COMMA>>)
             \o <<"]">>)
    [] enc = "pg" ->
         Str(<<"{">> \o Join([i \in 1..Len(elems) |-> PgText(elems[i])], <<COMMA>>)
             \o <<"}">>)

(***************************************************************************)
(* Inputs.                                                                 *)
(***************************************************************************)
SeqsUpTo(S, n) == UNION {[1..k -> S] : k \in 0..n}

\* a question row; choiceScores is the list of scores as the survey editor holds
\* it before writing choice_scores (the scorer reads choice_scores only)
Question(id, type, weight, choices, enc, choiceScores, max_score) ==
  [id |-> id, type |-> type, scorable |-> "true", weight |-> weight,
   choices |-> choices, choiceScores |-> choiceScores,
   choice_scores |-> Encode(enc, choiceScores), max_score |-> max_score]

\* an answer row; score is the stored score column.  selected lists the labels
\* the respondent selected, in the order the value holds them (the scorer
\* reads value only)
AnswerOfSelection(id, value, selected) ==
  [question_id |-> id, score |-> <<>>, value |-> value, selected |-> selected]
Answer(id, value) == AnswerOfSelection(id, value, <<>>)

Category(title, weight, questions) ==
  [id |-> title, title |-> title, weight |-> weight, questions |-> questions]

Opts(tmz, uqw, ucw) ==
  [given |-> TRUE, treatMissingAsZero |-> tmz,
   useQuestionWeights |-> uqw, useCategoryWeights |-> ucw]
OptsOmitted == [given |-> FALSE, treatMissingAsZero |-> "undef",
                useQuestionWeights |-> "undef", useCategoryWeights |-> "undef"]
Switch == {"true", "false", "undef"}
OptsArgs == {OptsOmitted} \cup {Opts(a, b, c) : a \in Switch, b \in Switch, c \in Switch}

LabelNames == <<"A", "B", "C", "D", "E">>
\* the labels "A", "B", ... of a question with n choices
PlainLabels(n) == [i \in 1..n |-> Str(<<LabelNames[i]>>)]

\* Scores: one question whose stored choice scores, type and answer vary
ScoreElems == {Num(0 - 1), Num(0), Num(2), Null}
ScoreLists == SeqsUpTo(ScoreElems, MaxChoices)
ScoreAnswers ==
  {<<>>} \cup {<<Answer("q1", Str(<<LabelNames[i]>>))>> : i \in 1..MaxChoices}
         \cup {<<Answer("q1", Str(<<"2">>))>>, <<Answer("q1", Str(<<"x">>))>>}
ScoreInputs(types) ==
  {[categories |->
      <<Category("T1", <<>>,
          <<Question("q1", ty, <<>>, Arr(PlainLabels(MaxChoices)), enc, sc, ms)>>)>>,
    answers |-> a,
    optsArg |-> Opts(tmz, "false", "false")] :
     ty \in types, enc \in Encodings, sc \in ScoreLists,
     ms \in {<<>>, <<2>>}, a \in ScoreAnswers, tmz \in {"true", "false"}}

\* Lookups: one question whose labels and answer vary; the score of the choice
\* at position i is 2^(i-1), so that a raw score tells which positions it sums
BlankA == <<SP, "A">>
CommaAB == <<"A", COMMA, "B">>
LabelPool == {<<"A">>, <<"B">>, <<"C">>, BlankA, CommaAB}
LabelLists == SeqsUpTo(LabelPool, MaxChoices) \ {<<>>}
Selections == SeqsUpTo(LabelPool, MaxSelected) \ {<<>>}
PositionScores(n) == [i \in 1..n |-> Num(2 ^ (i - 1))]
StrList(xs) == [i \in 1..Len(xs) |-> Str(xs[i])]
\* a multi-choice answer as a list, or as the labels joined by ", "
ListValue(sel) == Arr(StrList(sel))
JoinedValue(sel) == Str(Join(sel, <<COMMA, SP>>))
LookupAnswers ==
  {<<AnswerOfSelection("q1", Str(x), <<x>>)>> : x \in LabelPool \cup {<<"A", SP>>}}
    \cup {<<AnswerOfSelection("q1", ListValue(sel), sel)>> : sel \in Selections}
    \cup {<<AnswerOfSelection("q1", JoinedValue(sel), sel)>> : sel \in Selections}
LookupInputs(types) ==
  {[categories |->
      <<Category("T1", <<>>,
          <<Question("q1", ty, <<>>, Arr(StrList(ls)), "array",
                     PositionScores(Len(ls)), <<>>)>>)>>,
    answers |-> a,
    optsArg |-> OptsOmitted] :
     ty \in types, ls \in LabelLists, a \in LookupAnswers}

\* Surveys: up to MaxCats categories holding up to MaxQuestions questions in
\* all.  Each question has the choices "A", "B" and is one of the kinds below
\* (its choice scores; the label answered, << >> when it has no answer).  The
\* k-th question of a category has weight k, the k-th category weight k.
QIds == <<"q1", "q2", "q3", "q4", "q5", "q6", "q7", "q8">>
Titles == <<"T1", "T2", "T3", "T4">>
SpreadScores == <<Num(0), Num(2)>>
FlatScores == <<Num(1), Num(1)>>
AnswerKinds == {<<>>, <<"A">>, <<"B">>}
SpreadKinds == {[scores |-> SpreadScores, ans |-> an] : an \in AnswerKinds}
QuestionKinds == SpreadKinds \cup {[scores |-> FlatScores, ans |-> <<"A">>]}

RECURSIVE SumSeq(_)
SumSeq(xs) == IF xs = <<>> THEN 0 ELSE Head(xs) + SumSeq(Tail(xs))

\* the numbers of questions of the categories of a survey
Shapes == {sz \in SeqsUpTo(0..MaxQuestions, MaxCats) : SumSeq(sz) <= MaxQuestions}

\* the survey of shape sz whose n-th question (counted through the categories)
\* is of kind kinds[n]
SurveyOf(sz, kinds) ==
  [c \in 1..Len(sz) |->
     Category(Titles[c], <<c>>,
       [k \in 1..sz[c] |->
          LET n == SumSeq(SubSeq(sz, 1, c - 1)) + k
          IN Question(QIds[n], "radio", <<k>>, Arr(PlainLabels(2)), "array",
                      kinds[n].scores, <<>>)])]

\* the answers of the respondent, in the order of the questions
RECURSIVE AnswersOf(_, _)
AnswersOf(kinds, n) ==
  IF n > Len(kinds) THEN <<>>
  ELSE (IF kinds[n].ans = <<>> THEN <<>>
        ELSE <<Answer(QIds[n], Str(kinds[n].ans))>>) \o AnswersOf(kinds, n + 1)

GivenOpts == {Opts(a, b, c) : a \in {"true", "false"}, b \in {"true", "false"},
                              c \in {"true", "false"}}

\* kinds lists MaxQuestions kinds; a survey of shape sz uses the first
\* SumSeq(sz) of them
SurveysOfKinds(pool, optsArgs) ==
  {[categories |-> SurveyOf(sz, kinds),
    answers |-> AnswersOf(SubSeq(kinds, 1, SumSeq(sz)), 1),
    optsArg |-> o] :
     sz \in Shapes,
     kinds \in [1..MaxQuestions -> pool],
     o \in optsArgs}

\* Mixed surveys: one category of up to MaxMixed questions, each a radio
\* question with the choices "A", "B" scored 0, 2 or a text question without
\* choices; the scorable flag, the weight (absent, 0 or 2) and the answer vary
MixedKinds ==
  {[type |-> ty, scorable |-> sc, weight |-> w, ans |-> an] :
     ty \in {"radio", "text"}, sc \in {"true", "false"},
     w \in {<<>>, <<0>>, <<2>>}, an \in AnswerKinds} \
  {k \in [type : {"text"}, scorable : {"true", "false"},
          weight : {<<>>, <<0>>, <<2>>}, ans : AnswerKinds] : k.ans = <<"B">>}
MixedQuestion(n, kind) ==
  IF kind.type = "text"
    THEN [Question(QIds[n], "text", kind.weight, Null, "array", <<>>, <<>>)
            EXCEPT !.scorable = kind.scorable, !.choice_scores = Null]
    ELSE [Question(QIds[n], kind.type, kind.weight, Arr(PlainLabels(2)), "array",
                   SpreadScores, <<>>)
            EXCEPT !.scorable = kind.scorable]
MixedInputs(optsArgs) ==
  {[categories |-> <<Category(Titles[1], <<1>>,
                              [n \in 1..Len(kinds) |-> MixedQuestion(n, kinds[n])])>>,
    answers |-> AnswersOf(kinds, 1),
    optsArg |-> o] :
     kinds \in SeqsUpTo(MixedKinds, MaxMixed),
     o \in optsArgs}
\* Weighted surveys: up to MaxCats categories whose weight is absent, 0 or 3,
\* each holding up to two answered radio questions (choices "A", "B" scored
\* 0, 2; the k-th question of a category has weight k)
AnsweredLists == SeqsUpTo({<<"A">>, <<"B">>}, 2)
CategoryShapes ==
  {[weight |-> w, picks |-> p] : w \in {<<>>, <<0>>, <<3>>}, p \in AnsweredLists}
WeightedCategory(c, shape) ==
  Category(Titles[c], shape.weight,
    [k \in 1..Len(shape.picks) |->
       Question(QIds[2 * (c - 1) + k], "radio", <<k>>, Arr(PlainLabels(2)), "array",
                SpreadScores, <<>>)])
RECURSIVE WeightedAnswers(_, _)
WeightedAnswers(shapes, c) ==
  IF c > Len(shapes) THEN <<>>
  ELSE [k \in 1..Len(shapes[c].picks) |->
          Answer(QIds[2 * (c - 1) + k], Str(shapes[c].picks[k]))]
       \o WeightedAnswers(shapes, c + 1)
WeightedInputs(optsArgs) ==
  {[categories |-> [c \in 1..Len(shapes) |-> WeightedCategory(c, shapes[c])],
    answers |-> WeightedAnswers(shapes, 1),
    optsArg |-> o] :
     shapes \in SeqsUpTo(CategoryShapes, MaxCats),
     o \in optsArgs}
\* Answer rows with a stored score: the mixed surveys, the score column of
\* every row filled with 0, with 9, or with 9 and null in turn
StoredScoreFills == {"zero", "nine", "alternate"}
FillScores(answs, fill) ==
  [k \in 1..Len(answs) |->
     [answs[k] EXCEPT !.score = CASE fill = "zero" -> <<0>>
                                  [] fill = "nine" -> <<9>>
                                  [] OTHER -> IF k % 2 = 1 THEN <<9>> ELSE <<>>]]
ScoredRowInputs ==
  {[inp EXCEPT !.answers = FillScores(inp.answers, fill)] :
     inp \in MixedInputs({OptsOmitted}), fill \in StoredScoreFills}

\* the same surveys, and each of them with every category under one title
SharedTitle(inp) ==
  [inp EXCEPT !.categories = [c \in 1..Len(inp.categories) |->
                                [inp.categories[c] EXCEPT !.title = Titles[1]]]]
TitledInputs(optsArgs) ==
  {IF shared THEN SharedTitle(inp) ELSE inp :
     inp \in WeightedInputs(optsArgs), shared \in BOOLEAN}
\* Parser inputs: null, undefined, numbers, arrays, and every text of up to
\* MaxText characters out of a letter, a digit, the blank and the characters
\* the parser looks at
TextChars == {"A", "1", SP, COMMA, QUOTE, "[", "]", "{", "}"}
ParserInputs ==
  {Null, Undef, Num(0), Num(12), Num(0 - 1)}
    \cup {Arr(xs) : xs \in SeqsUpTo({Str(<<"A">>), Num(1), Null}, 2)}
    \cup {Str(t) : t \in SeqsUpTo(TextChars, MaxText)}
\* Stored scores: one or two categories (the second one with the title of the
\* first or its own) of up to MaxStored questions, as the mock survey of the
\* score calculation tests builds them: a question holds a max_score and no
\* choices, an answer row holds the stored score and no value
StoredKinds ==
  {[max_score |-> 1, score |-> <<>>], [max_score |-> 1, score |-> <<0>>],
   [max_score |-> 1, score |-> <<1>>], [max_score |-> 2, score |-> <<1>>],
   [max_score |-> 2, score |-> <<3>>]}
StoredQuestion(id, kind) ==
  [id |-> id, type |-> "", scorable |-> "undef", weight |-> <<>>, choices |-> Undef,
   choiceScores |-> <<>>, choice_scores |-> Undef, max_score |-> <<kind.max_score>>]
StoredCategory(c, title, kinds) ==
  Category(title, <<>>,
           [k \in 1..Len(kinds) |-> StoredQuestion(QIds[MaxStored * (c - 1) + k],
                                                    kinds[k])])
RECURSIVE StoredAnswers(_, _, _)
StoredAnswers(c, kinds, k) ==
  IF k > Len(kinds) THEN <<>>
  ELSE (IF kinds[k].score = <<>> THEN <<>>
        ELSE <<[Answer(QIds[MaxStored * (c - 1) + k], Undef)
                  EXCEPT !.score = kinds[k].score]>>)
       \o StoredAnswers(c, kinds, k + 1)
StoredInputs ==
  {[categories |-> <<>>, answers |-> <<>>, optsArg |-> OptsOmitted]}
  \cup {[categories |-> <<StoredCategory(1, Titles[1], k1)>>,
         answers |-> StoredAnswers(1, k1, 1), optsArg |-> OptsOmitted] :
          k1 \in SeqsUpTo(StoredKinds, MaxStored)}
  \cup {[categories |-> <<StoredCategory(1, Titles[1], k1), StoredCategory(2, t2, k2)>>,
         answers |-> StoredAnswers(1, k1, 1) \o StoredAnswers(2, k2, 1),
         optsArg |-> OptsOmitted] :
          k1 \in SeqsUpTo(StoredKinds, MaxStored),
          k2 \in SeqsUpTo(StoredKinds, MaxStored), t2 \in {Titles[1], Titles[2]}}

\* Encoded labels: every label of up to MaxLabel characters out of a letter,
\* the blank, the comma, the double quote and the backslash
EncodedLabelPool == SeqsUpTo({"A", SP, COMMA, QUOTE, BACKSLASH}, MaxLabel)

\* Ranges of one scope: integer bounds with min_score < max_score, and
\* percentages with two decimals around every integer
RangeSet == {[min_score |-> a, max_score |-> b] :
               a \in 0..MaxPercent, b \in 0..MaxPercent}
ValidRanges == {r \in RangeSet : r.min_score < r.max_score}
RangeLists == SeqsUpTo(ValidRanges, MaxRanges)
Hundredths == {0, 1, 49, 50, 51, 99}
Percents == {h \in {100 * k + f : k \in 0..MaxPercent, f \in Hundredths} :
               h <= 100 * MaxPercent}

(***************************************************************************)
(* The state machine: the inputs of one call, and its result.              *)
(***************************************************************************)
VARIABLES categories, answers, optsArg, pc, result, percent, ranges, picked,
          reportPicked, input, encodedLabels, parsed, scoreRanges, error, nextId,
          pageScores, report, loader, submit, take, finish

\* the arguments and the result of computeScores
ScorerVars == <<categories, answers, optsArg, result>>
\* the arguments of pickRange, the range the library picks and the range the
\* report handler picks
RangeVars == <<percent, ranges, picked, reportPicked>>
\* the argument and the result of parseArrayish; encodedLabels is the list of
\* labels the argument was encoded from (empty when it encodes none)
ParserVars == <<input, encodedLabels, parsed>>
\* the state of ScoreRangesManager for one scope: the ranges it holds, its
\* error message, and the id the database gives the next inserted row
ManagerVars == <<scoreRanges, error, nextId>>

\* the pages and the request handler around the library: what the results
\* page computes from the stored scores, the report request in progress, the
\* results page's data loading, the submissions of the answers, the question
\* shown by the take-survey page, and the calls of handleFinish
PageVars == <<pageScores, report, loader, submit, take, finish>>
\* the state of the library calls and of the range manager
LibVars == <<pc, ScorerVars, RangeVars, ParserVars, ManagerVars>>
vars == <<pc, ScorerVars, RangeVars, ParserVars, ManagerVars, PageVars>>

NoResult == [categoryPercents |-> <<>>, totalPercent |-> 0, cats |-> <<>>]

\* the parts of the state a specification does not use
NoRanges == percent = 0 /\ ranges = Arr(<<>>) /\ picked = 0 /\ reportPicked = 0
NoParse == input = Null /\ encodedLabels = <<>> /\ parsed = <<>>
NoManager == scoreRanges = <<>> /\ error = "" /\ nextId = 1
NoPageScores == pageScores = <<>>
NoReport == report = <<>>
NoLoader == loader = <<>>
NoSubmit == submit = <<>>
NoTake == take = <<>>
NoFinish == finish = <<>>
NoPages == NoPageScores /\ NoReport /\ NoLoader /\ NoSubmit /\ NoTake /\ NoFinish
NoScores ==
  /\ categories = <<>>
  /\ answers = <<>>
  /\ optsArg = OptsOmitted
  /\ result = NoResult

InitWith(inputs) ==
  /\ \E inp \in inputs :
       /\ categories = inp.categories
       /\ answers = inp.answers
       /\ optsArg = inp.optsArg
  /\ pc = "ready"
  /\ result = NoResult
  /\ NoRanges
  /\ NoParse
  /\ NoManager
  /\ NoPages

\* one call of computeScores
ComputeScores ==
  /\ pc = "ready"
  /\ result' = computeScores(categories, answers, optsArg)
  /\ pc' = "scored"
  /\ UNCHANGED <<categories, answers, optsArg, RangeVars, ParserVars, ManagerVars, PageVars>>

Init == InitWith(ScoreInputs({"radio", "checkbox", "rating"}))
Next == ComputeScores
Spec == Init /\ [][Next]_vars

InitLookup == InitWith(LookupInputs({"radio", "checkbox"}))
SpecLookup == InitLookup /\ [][Next]_vars

\* surveys of questions of every kind, under options that set every switch
InitSurvey == InitWith(SurveysOfKinds(QuestionKinds, GivenOpts))
SpecSurvey == InitSurvey /\ [][Next]_vars

\* surveys of questions with spread scores, under every way of passing the
\* options or leaving them out
InitOpts == InitWith(SurveysOfKinds(SpreadKinds, OptsArgs))
SpecOpts == InitOpts /\ [][Next]_vars

\* mixed surveys under options that set every switch (one category: the
\* category weights play no part)
InitMixed ==
  InitWith(MixedInputs({Opts(a, b, "false") : a \in {"true", "false"},
                                              b \in {"true", "false"}}))
SpecMixed == InitMixed /\ [][Next]_vars

\* weighted surveys, every question answered, with and without the question
\* weights and the category weights
InitWeighted ==
  InitWith(WeightedInputs({Opts("true", b, c) : b \in {"true", "false"},
                                               c \in {"true", "false"}}))
SpecWeighted == InitWeighted /\ [][Next]_vars

\* mixed surveys whose answer rows hold a stored score
InitScoredRows == InitWith(ScoredRowInputs)
SpecScoredRows == InitScoredRows /\ [][Next]_vars

\* weighted surveys whose categories may share a title
InitTitled ==
  InitWith(TitledInputs({Opts("true", "false", c) : c \in {"true", "false"}}))
SpecTitled == InitTitled /\ [][Next]_vars

\* one call of parseArrayish
ParseArrayish ==
  /\ pc = "ready"
  /\ parsed' = parseArrayish(input)
  /\ pc' = "parsed"
  /\ UNCHANGED <<ScorerVars, RangeVars, input, encodedLabels, ManagerVars, PageVars>>

InitParse ==
  /\ input \in ParserInputs
  /\ encodedLabels = <<>>
  /\ parsed = <<>>
  /\ pc = "ready"
  /\ NoScores
  /\ NoRanges
  /\ NoManager
  /\ NoPages
NextParse == ParseArrayish
SpecParse == InitParse /\ [][NextParse]_vars

\* one call of parseArrayish on a stored encoding of a list of labels
InitRoundTrip ==
  /\ encodedLabels \in SeqsUpTo(EncodedLabelPool, 2)
  /\ \E enc \in Encodings : input = Encode(enc, StrList(encodedLabels))
  /\ parsed = <<>>
  /\ pc = "ready"
  /\ NoScores
  /\ NoRanges
  /\ NoManager
  /\ NoPages
SpecRoundTrip == InitRoundTrip /\ [][NextParse]_vars

\* one call of pickRange
PickRange ==
  /\ pc = "ready"
  /\ picked' = pickRange(percent, ranges)
  /\ pc' = "picked"
  /\ UNCHANGED <<ScorerVars, percent, ranges, reportPicked, ParserVars, ManagerVars, PageVars>>

InitRange ==
  /\ percent \in Percents
  /\ ranges \in {Arr(rs) : rs \in RangeLists}
  /\ picked = 0
  /\ reportPicked = 0
  /\ pc = "ready"
  /\ NoScores
  /\ NoParse
  /\ NoManager
  /\ NoPages
NextRange == PickRange
SpecRange == InitRange /\ [][NextRange]_vars

\* one call of pickRange whose list of ranges may be null or undefined
InitPick ==
  /\ percent \in Percents
  /\ ranges \in {Arr(rs) : rs \in RangeLists} \cup {Null, Undef}
  /\ picked = 0
  /\ reportPicked = 0
  /\ pc = "ready"
  /\ NoScores
  /\ NoParse
  /\ NoManager
  /\ NoPages
SpecPick == InitPick /\ [][NextRange]_vars

\* the report handler classifies the percentage the library classified
ReportPickRange ==
  /\ pc = "picked"
  /\ reportPicked' = reportPickRange(percent, ranges)
  /\ pc' = "reported"
  /\ UNCHANGED <<ScorerVars, percent, ranges, picked, ParserVars, ManagerVars, PageVars>>

NextReport == PickRange \/ ReportPickRange
SpecReport == InitPick /\ [][NextReport]_vars

(***************************************************************************)
(* ScoreRangesManager, for one scope.  scoreRanges is the component's list *)
(* of the stored ranges, in the order they were added; error is the        *)
(* message shown ("" for null); nextId is the id the next insert gets.     *)
(***************************************************************************)
\* the numbers typed in the min and max fields
ScoreValues == {0, 50, 51, 100}

\* the test of scoreRanges.some(...) for one stored range
Overlaps(range, minScore, maxScore) ==
  \/ (minScore >= range.min_score /\ minScore < range.max_score)
  \/ (maxScore > range.min_score /\ maxScore <= range.max_score)
  \/ (minScore <= range.min_score /\ maxScore >= range.max_score)

\* hasOverlap; exceptId is the id of the range being edited, 0 in an add
HasOverlap(rs, minScore, maxScore, exceptId) ==
  \E i \in 1..Len(rs) :
    rs[i].id # exceptId /\ Overlaps(rs[i], minScore, maxScore)

\* [...ranges].sort((a, b) => a.min_score - b.min_score), a stable sort
RECURSIVE InsertByMin(_, _)
InsertByMin(r, sorted) ==
  IF sorted = <<>> THEN <<r>>
  ELSE IF r.min_score < Head(sorted).min_score THEN <<r>> \o sorted
  ELSE <<Head(sorted)>> \o InsertByMin(r, Tail(sorted))
RECURSIVE SortByMin(_)
SortByMin(rs) ==
  IF rs = <<>> THEN <<>>
  ELSE InsertByMin(rs[Len(rs)], SortByMin(SubSeq(rs, 1, Len(rs) - 1)))

GapsInSorted(sorted) ==
  \/ sorted[1].min_score > 0
  \/ \E i \in 1..(Len(sorted) - 1) :
       sorted[i].max_score < sorted[i + 1].min_score - 1
  \/ sorted[Len(sorted)].max_score < 100

checkForGaps(rs) == IF rs = <<>> THEN TRUE ELSE GapsInSorted(SortByMin(rs))

\* scoreRanges.filter(range => range.id !== id)
RECURSIVE WithoutId(_, _)
WithoutId(rs, id) ==
  IF rs = <<>> THEN <<>>
  ELSE (IF Head(rs).id # id THEN <<Head(rs)>> ELSE <<>>) \o WithoutId(Tail(rs), id)

\* the form is filled with minScore and maxScore (filled = FALSE when a field
\* is empty) and Add is clicked; ok = FALSE when the insert request fails
handleAddRange ==
  /\ pc = "manager"
  /\ nextId <= MaxAdds
  /\ \E filled \in BOOLEAN, minScore \in ScoreValues, maxScore \in ScoreValues,
        ok \in BOOLEAN :
       IF ~filled THEN
         error' = "Please fill in all fields" /\ UNCHANGED <<scoreRanges, nextId>>
       ELSE IF minScore >= maxScore THEN
         /\ error' = "Maximum score must be greater than minimum score"
         /\ UNCHANGED <<scoreRanges, nextId>>
       ELSE IF HasOverlap(scoreRanges, minScore, maxScore, 0) THEN
         /\ error' = "This range overlaps with an existing range"
         /\ UNCHANGED <<scoreRanges, nextId>>
       ELSE IF ~ok THEN
         error' = "request failed" /\ UNCHANGED <<scoreRanges, nextId>>
       ELSE
         /\ scoreRanges' = Append(scoreRanges,
                                  [id |-> nextId, min_score |-> minScore,
                                   max_score |-> maxScore])
         /\ nextId' = nextId + 1
         /\ error' = IF checkForGaps(scoreRanges') THEN "Warning: gaps" ELSE ""
  /\ UNCHANGED <<pc, ScorerVars, RangeVars, ParserVars, PageVars>>

\* a stored range is being edited (editingRange), its fields are set to
\* minScore and maxScore, and Save is clicked
handleUpdateRange ==
  /\ pc = "manager"
  /\ \E e \in 1..Len(scoreRanges), minScore \in ScoreValues,
        maxScore \in ScoreValues, ok \in BOOLEAN :
       IF minScore >= maxScore THEN
         /\ error' = "Maximum score must be greater than minimum score"
         /\ UNCHANGED scoreRanges
       ELSE IF HasOverlap(scoreRanges, minScore, maxScore, scoreRanges[e].id) THEN
         /\ error' = "This range overlaps with an existing range"
         /\ UNCHANGED scoreRanges
       ELSE IF checkForGaps(Append(WithoutId(scoreRanges, scoreRanges[e].id),
                                   [min_score |-> minScore, max_score |-> maxScore])) THEN
         /\ error' = "This change would create a gap"
         /\ UNCHANGED scoreRanges
       ELSE IF ~ok THEN
         error' = "request failed" /\ UNCHANGED scoreRanges
       ELSE
         /\ scoreRanges' = [scoreRanges EXCEPT ![e] =
                              [id |-> scoreRanges[e].id, min_score |-> minScore,
                               max_score |-> maxScore]]
         /\ error' = ""
  /\ UNCHANGED <<pc, nextId, ScorerVars, RangeVars, ParserVars, PageVars>>

\* Delete is clicked on a stored range
handleDeleteRange ==
  /\ pc = "manager"
  /\ \E e \in 1..Len(scoreRanges), ok \in BOOLEAN :
       IF ~ok THEN
         error' = "request failed" /\ UNCHANGED scoreRanges
       ELSE
         /\ scoreRanges' = WithoutId(scoreRanges, scoreRanges[e].id)
         /\ error' = IF checkForGaps(scoreRanges') /\ scoreRanges' # <<>>
                       THEN "Warning: gaps" ELSE ""
  /\ UNCHANGED <<pc, nextId, ScorerVars, RangeVars, ParserVars, PageVars>>

InitManager ==
  /\ pc = "manager"
  /\ NoManager
  /\ NoPages
  /\ NoScores
  /\ NoRanges
  /\ NoParse
NextManager == handleAddRange \/ handleUpdateRange \/ handleDeleteRange
SpecManager == InitManager /\ [][NextManager]_vars

(***************************************************************************)
(* The results page computes its percentages from the rows the library     *)
(* scored.                                                                 *)
(***************************************************************************)
UseMemo ==
  /\ pc = "scored"
  /\ pageScores' = IF categories = <<>>
                     THEN [categoryPercents |-> <<>>, totalPercent |-> FracOfInt(0)]
                     ELSE scoresMemo(categories, answers)
  /\ pc' = "shown"
  /\ UNCHANGED <<ScorerVars, RangeVars, ParserVars, ManagerVars,
                 report, loader, submit, take, finish>>

InitStored == InitWith(StoredInputs)
NextStored == ComputeScores \/ UseMemo
SpecStored == InitStored /\ [][NextStored]_vars

(***************************************************************************)
(* The report-generation handler: one request, from its checks to its       *)
(* response.  Every awaited call either resolves or rejects.                *)
(***************************************************************************)
\* the parts of the state the pages and handlers do not use
IdleLibrary == NoManager /\ NoScores /\ NoRanges /\ NoParse

Requests ==
  {[method |-> m, json |-> j, fields |-> f, mailHost |-> h] :
     m \in {"OPTIONS", "GET", "POST"}, j \in BOOLEAN, f \in BOOLEAN, h \in BOOLEAN}
NewRequest(req) ==
  [req |-> req, at |-> "validate", browsers |-> 0, uploaded |-> FALSE,
   updateCalled |-> FALSE, saved |-> FALSE, mailCalled |-> FALSE,
   emailSent |-> FALSE, emailMessage |-> "", status |-> 0, success |-> FALSE,
   serveUrl |-> FALSE, thrownAt |-> ""]

Respond(r, status) == [r EXCEPT !.at = "done", !.status = status]
\* the catch around the whole handler
Thrown(r) == [Respond(r, 500) EXCEPT !.thrownAt = r.at]

GenerateFrame == UNCHANGED <<LibVars, pageScores, loader, submit, take, finish>>

\* the checks of the request before the first awaited call
Validate ==
  /\ pc = "generate" /\ report.at = "validate"
  /\ report' = CASE report.req.method = "OPTIONS" -> Respond(report, 204)
                 [] report.req.method # "POST" -> Respond(report, 405)
                 [] ~report.req.json -> Respond(report, 415)
                 [] ~report.req.fields -> Respond(report, 400)
                 [] OTHER -> [report EXCEPT !.at = "survey"]
  /\ GenerateFrame

FetchSurvey ==
  /\ pc = "generate" /\ report.at = "survey"
  /\ \E found \in BOOLEAN :
       report' = IF found THEN [report EXCEPT !.at = "catRanges"]
                 ELSE Respond(report, 404)
  /\ GenerateFrame

\* an awaited call whose failure is thrown to the handler's catch
Await(here, next) ==
  /\ pc = "generate" /\ report.at = here
  /\ \E ok \in BOOLEAN :
       report' = IF ok THEN [report EXCEPT !.at = next] ELSE Thrown(report)
  /\ GenerateFrame

FetchCategoryRanges == Await("catRanges", "totRanges")
FetchTotalRanges == Await("totRanges", "categories")
FetchCategories == Await("categories", "launch")

LaunchBrowser ==
  /\ pc = "generate" /\ report.at = "launch"
  /\ \E ok \in BOOLEAN :
       report' = IF ok THEN [report EXCEPT !.at = "newPage", !.browsers = @ + 1]
                 ELSE Thrown(report)
  /\ GenerateFrame

NewPage == Await("newPage", "setContent")
SetContent == Await("setContent", "pdf")
Pdf == Await("pdf", "close")

CloseBrowser ==
  /\ pc = "generate" /\ report.at = "close"
  /\ \E ok \in BOOLEAN :
       report' = IF ok THEN [report EXCEPT !.at = "upload", !.browsers = @ - 1]
                 ELSE Thrown(report)
  /\ GenerateFrame

\* an upload whose error is not thrown
Upload_ContinuesOnError ==
  /\ pc = "generate" /\ report.at = "upload"
  /\ \E uploadErr \in BOOLEAN :
       report' = [report EXCEPT !.at = "update", !.uploaded = ~uploadErr]
  /\ GenerateFrame

Upload ==
  /\ pc = "generate" /\ report.at = "upload"
  /\ \E uploadErr \in BOOLEAN :
       report' = IF uploadErr THEN Thrown(report)
                 ELSE [report EXCEPT !.at = "update", !.uploaded = TRUE]
  /\ GenerateFrame

\* an update whose error is thrown
UpdateRespondent_Throws ==
  /\ pc = "generate" /\ report.at = "update"
  /\ \E updErr \in BOOLEAN :
       report' = IF updErr THEN Thrown([report EXCEPT !.updateCalled = TRUE])
                 ELSE [report EXCEPT !.at = "mail", !.updateCalled = TRUE,
                                     !.saved = TRUE]
  /\ GenerateFrame

\* best effort: an error of the update is only logged
UpdateRespondent ==
  /\ pc = "generate" /\ report.at = "update"
  /\ \E updErr \in BOOLEAN :
       report' = [report EXCEPT !.at = "mail", !.updateCalled = TRUE,
                                !.saved = ~updErr]
  /\ GenerateFrame

\* best effort: a failure to send is caught and reported in emailMessage
SendMail ==
  /\ pc = "generate" /\ report.at = "mail"
  /\ IF report.req.mailHost THEN
       \E info \in {"messageId", "no messageId", "throws"} :
         report' = [report EXCEPT
                      !.at = "respond", !.mailCalled = TRUE,
                      !.emailSent = (info = "messageId"),
                      !.emailMessage = CASE info = "messageId" -> "Email sent."
                                         [] info = "no messageId" ->
                                              "Email not confirmed sent."
                                         [] OTHER -> "Email failed"]
     ELSE
       report' = [report EXCEPT !.at = "respond",
                                !.emailMessage = "Email skipped: MAIL_HOST not set."]
  /\ GenerateFrame

RespondOk ==
  /\ pc = "generate" /\ report.at = "respond"
  /\ report' = [Respond(report, 200) EXCEPT !.success = TRUE, !.serveUrl = TRUE]
  /\ GenerateFrame

InitGenerate ==
  /\ pc = "generate"
  /\ IdleLibrary
  /\ NoPageScores /\ NoLoader /\ NoSubmit /\ NoTake /\ NoFinish
  /\ report \in {NewRequest(req) : req \in Requests}
NextGenerate ==
  \/ Validate \/ FetchSurvey \/ FetchCategoryRanges \/ FetchTotalRanges
  \/ FetchCategories \/ LaunchBrowser \/ NewPage \/ SetContent \/ Pdf
  \/ CloseBrowser \/ Upload \/ UpdateRespondent \/ SendMail \/ RespondOk
SpecGenerate == InitGenerate /\ [][NextGenerate]_vars

(***************************************************************************)
(* The results page's loading effect.  Each run of the effect has its own   *)
(* cancelled flag, set by the cleanup of the effect; its fetches settle in  *)
(* any order with the runs that follow it.  The page state records the run  *)
(* that wrote it last (0: the initial value, null for error).              *)
(***************************************************************************)
NewLoader ==
  [runs |-> <<>>, survey |-> 0, loaded |-> 0, error |-> 0, loading |-> TRUE]
\* what the components render from
PageState(l) == <<l.survey, l.loaded, l.error, l.loading>>

LoaderFrame == UNCHANGED <<LibVars, pageScores, report, submit, take, finish>>

\* the cleanup of the last run of the effect
Cancelled(runs) ==
  IF runs = <<>> THEN runs ELSE [runs EXCEPT ![Len(runs)].cancelled = TRUE]

\* surveyId or respondentId changed, or the page mounted: the cleanup of the
\* previous run, then run() up to its first await
EffectRuns ==
  /\ pc = "loader"
  /\ Len(loader.runs) < MaxRuns
  /\ loader' = [loader EXCEPT
                  !.runs = Append(Cancelled(loader.runs),
                                  [at |-> "survey", cancelled |-> FALSE]),
                  !.loading = TRUE, !.error = 0]
  /\ LoaderFrame

\* the page unmounts
EffectCleanup ==
  /\ pc = "loader"
  /\ loader.runs # <<>> /\ ~loader.runs[Len(loader.runs)].cancelled
  /\ loader' = [loader EXCEPT !.runs = Cancelled(loader.runs)]
  /\ LoaderFrame

\* finally { if (!cancelled) setLoading(false) }
Finally(l, k) ==
  [l EXCEPT !.runs[k].at = "done",
            !.loading = IF l.runs[k].cancelled THEN @ ELSE FALSE]
\* catch (e) { setError(...) }, then the finally block
Caught(l, k) == Finally([l EXCEPT !.error = k], k)
\* if (cancelled) return, else go on to the next await
CheckCancelled(l, k, next) ==
  IF l.runs[k].cancelled THEN Finally(l, k) ELSE [l EXCEPT !.runs[k].at = next]

AfterSurvey(l, k) ==
  IF l.runs[k].cancelled THEN Finally(l, k)
  ELSE [l EXCEPT !.survey = k, !.runs[k].at = "categories"]
AfterCategories(l, k) == CheckCancelled(l, k, "questions")
AfterQuestions(l, k) == CheckCancelled(l, k, "answers")
AfterAnswers(l, k) == CheckCancelled(l, k, "catRanges")
\* no test of cancelled between the two fetches of ranges
AfterCatRanges(l, k) == [l EXCEPT !.runs[k].at = "totRanges"]
AfterTotRanges(l, k) ==
  IF l.runs[k].cancelled THEN Finally(l, k)
  ELSE Finally([l EXCEPT !.loaded = k], k)
\* the statements of run() that follow the fetch awaited at `here`
AfterFetch(l, k, here) ==
  CASE here = "survey" -> AfterSurvey(l, k)
    [] here \in {"categories", "categoriesAgain"} -> AfterCategories(l, k)
    [] here \in {"questions", "questionsAgain"} -> AfterQuestions(l, k)
    [] here = "answers" -> AfterAnswers(l, k)
    [] here = "catRanges" -> AfterCatRanges(l, k)
    [] OTHER -> AfterTotRanges(l, k)

\* a fetch of run k settles: with data, or with an error that is thrown
Settles(here) ==
  /\ pc = "loader"
  /\ \E k \in 1..Len(loader.runs), err \in BOOLEAN :
       /\ loader.runs[k].at = here
       /\ loader' = IF err THEN Caught(loader, k) ELSE AfterFetch(loader, k, here)
  /\ LoaderFrame
\* a fetch ordered by a column that may not exist: error 42703 asks again
SettlesOrRetries(here, retry) ==
  \/ Settles(here)
  \/ /\ pc = "loader"
     /\ \E k \in 1..Len(loader.runs) :
          /\ loader.runs[k].at = here
          /\ loader' = [loader EXCEPT !.runs[k].at = retry]
     /\ LoaderFrame

SurveyFetched == Settles("survey")
CategoriesFetched == SettlesOrRetries("categories", "categoriesAgain")
CategoriesFetchedAgain == Settles("categoriesAgain")
QuestionsFetched == SettlesOrRetries("questions", "questionsAgain")
QuestionsFetchedAgain == Settles("questionsAgain")
AnswersFetched == Settles("answers")
CatRangesFetched == Settles("catRanges")
TotRangesFetched == Settles("totRanges")

InitLoader ==
  /\ pc = "loader"
  /\ IdleLibrary
  /\ NoPageScores /\ NoReport /\ NoSubmit /\ NoTake /\ NoFinish
  /\ loader = NewLoader
NextLoader ==
  \/ EffectRuns \/ EffectCleanup \/ SurveyFetched \/ CategoriesFetched
  \/ CategoriesFetchedAgain \/ QuestionsFetched \/ QuestionsFetchedAgain
  \/ AnswersFetched \/ CatRangesFetched \/ TotRangesFetched
SpecLoader == InitLoader /\ [][NextLoader]_vars

(***************************************************************************)
(* The take-survey page's handleSubmit.  Each call runs to its first await  *)
(* in one piece; its inserts settle later, in any order with further calls. *)
(***************************************************************************)
NewSubmit == [submittingRef |-> FALSE, error |-> 0, pushed |-> 0, calls |-> <<>>]
InProgress(call) == call.at \in {"respondent", "response", "answers"}
NewCall(at, busy) ==
  [at |-> at, busy |-> busy,
   respondent |-> FALSE, response |-> FALSE, answers |-> FALSE]

SubmitFrame == UNCHANGED <<LibVars, pageScores, report, loader, take, finish>>

\* catch (e): the error is shown and the guard released
SubmitCaught(sb, k) ==
  [sb EXCEPT !.calls[k].at = "failed", !.error = k, !.submittingRef = FALSE]

\* a pick on the last question, or the button: one call up to its first await
handleSubmit_Unguarded ==
  /\ pc = "submit"
  /\ Len(submit.calls) < MaxCalls
  /\ \E valid \in BOOLEAN :
       LET k == Len(submit.calls) + 1
           busy == \E j \in 1..Len(submit.calls) : InProgress(submit.calls[j])
           begun(at) == [submit EXCEPT !.calls = Append(@, NewCall(at, busy)),
                                       !.error = 0]
       IN submit' = IF valid THEN begun("respondent")
                    ELSE SubmitCaught(begun("validate"), k)
  /\ SubmitFrame

handleSubmit ==
  /\ pc = "submit"
  /\ Len(submit.calls) < MaxCalls
  /\ \E valid \in BOOLEAN :
       LET k == Len(submit.calls) + 1
           busy == \E j \in 1..Len(submit.calls) : InProgress(submit.calls[j])
           begun(at) == [submit EXCEPT !.calls = Append(@, NewCall(at, busy)),
                                       !.submittingRef = TRUE, !.error = 0]
       IN submit' =
            IF submit.submittingRef
              THEN [submit EXCEPT !.calls = Append(@, NewCall("returned", busy))]
            ELSE IF valid THEN begun("respondent")
            ELSE SubmitCaught(begun("validate"), k)
  /\ SubmitFrame

InsertRespondent ==
  /\ pc = "submit"
  /\ \E k \in 1..Len(submit.calls), rErr \in BOOLEAN :
       /\ submit.calls[k].at = "respondent"
       /\ submit' = IF rErr THEN SubmitCaught(submit, k)
                    ELSE [submit EXCEPT !.calls[k].respondent = TRUE,
                                        !.calls[k].at = "response"]
  /\ SubmitFrame

InsertResponse ==
  /\ pc = "submit"
  /\ \E k \in 1..Len(submit.calls), respErr \in BOOLEAN :
       /\ submit.calls[k].at = "response"
       /\ submit' = IF respErr THEN SubmitCaught(submit, k)
                    ELSE [submit EXCEPT !.calls[k].response = TRUE,
                                        !.calls[k].at = "answers"]
  /\ SubmitFrame

\* the last insert; router.push follows it
InsertAnswers ==
  /\ pc = "submit"
  /\ \E k \in 1..Len(submit.calls), aErr \in BOOLEAN :
       /\ submit.calls[k].at = "answers"
       /\ submit' = IF aErr THEN SubmitCaught(submit, k)
                    ELSE [submit EXCEPT !.calls[k].answers = TRUE,
                                        !.calls[k].at = "succeeded",
                                        !.pushed = @ + 1]
  /\ SubmitFrame

InitSubmit ==
  /\ pc = "submit"
  /\ IdleLibrary
  /\ NoPageScores /\ NoReport /\ NoLoader /\ NoTake /\ NoFinish
  /\ submit = NewSubmit
NextSubmit == handleSubmit \/ InsertRespondent \/ InsertResponse \/ InsertAnswers
SpecSubmit == InitSubmit /\ [][NextSubmit]_vars

(***************************************************************************)
(* TakeSurveyPage: the active question index.  A pick on a question that is *)
(* not the last one defers the advance to a timer; the page is rendered     *)
(* again when the timer has run.                                            *)
(***************************************************************************)
NewTake(n) ==
  [n |-> n, i |-> 0, answered |-> {}, timers |-> 0, picks |-> 0,
   overlapped |-> FALSE, finishes |-> 0]
\* flatQs[i] || null
HasCurrentQ(t) == t.i >= 0 /\ t.i < t.n

TakeFrame == UNCHANGED <<LibVars, pageScores, report, loader, submit, finish>>

onPick ==
  /\ pc = "take"
  /\ take.picks < MaxPicks
  /\ HasCurrentQ(take)
  /\ take' = IF take.i < take.n - 1
               THEN [take EXCEPT !.answered = @ \cup {take.i}, !.picks = @ + 1,
                                 !.overlapped = @ \/ take.timers > 0,
                                 !.timers = @ + 1]
             ELSE [take EXCEPT !.answered = @ \cup {take.i}, !.picks = @ + 1,
                               !.overlapped = @ \/ take.timers > 0,
                               !.finishes = @ + 1]
  /\ TakeFrame

\* setTimeout(() => setI((v) => v + 1), 0)
AdvanceTimer ==
  /\ pc = "take"
  /\ take.timers > 0
  /\ take' = [take EXCEPT !.i = @ + 1, !.timers = @ - 1]
  /\ TakeFrame

InitTake ==
  /\ pc = "take"
  /\ IdleLibrary
  /\ NoPageScores /\ NoReport /\ NoLoader /\ NoSubmit /\ NoFinish
  /\ take \in {NewTake(n) : n \in 1..MaxFlat}
NextTake == onPick \/ AdvanceTimer
SpecTake == InitTake /\ [][NextTake]_vars

(***************************************************************************)
(* handleFinish of the take-survey page.  An invocation runs to its first   *)
(* await in one piece; each insert then resolves with data, resolves with   *)
(* an error, or rejects.                                                    *)
(***************************************************************************)
InsertOutcomes == {"data", "error", "rejects"}
NewFinish(client, entries) ==
  [at |-> "respondent", client |-> client, entries |-> entries,
   respondentRow |-> FALSE, responseRow |-> FALSE, answersSaved |-> FALSE,
   pushes |-> 0, withResponseId |-> FALSE]
\* router.push(`/surveys/results/${surveyId}`), and the end of the invocation
PushPlain(fin) == [fin EXCEPT !.at = "done", !.pushes = @ + 1]
\* router.push(`/surveys/results/${surveyId}?responseId=${response.id}`)
PushWithResponseId(fin) ==
  [fin EXCEPT !.at = "done", !.pushes = @ + 1, !.withResponseId = TRUE]

FinishFrame == UNCHANGED <<LibVars, pageScores, report, loader, submit, take>>

\* the last question is answered: handleFinish up to its first await
handleFinish ==
  /\ pc = "finish"
  /\ Len(finish) < MaxFinishes
  /\ \E client \in BOOLEAN, entries \in BOOLEAN :
       finish' = Append(finish, IF client THEN NewFinish(client, entries)
                                ELSE PushPlain(NewFinish(client, entries)))
  /\ FinishFrame

\* an insert that sends the page on without a responseId when it fails
RespondentInserted_StopsOnError ==
  /\ pc = "finish"
  /\ \E k \in 1..Len(finish), outcome \in InsertOutcomes :
       /\ finish[k].at = "respondent"
       /\ finish' = [finish EXCEPT ![k] =
                       CASE outcome = "data" ->
                              [@ EXCEPT !.at = "response", !.respondentRow = TRUE]
                         [] outcome = "error" -> [@ EXCEPT !.at = "done"]
                         [] OTHER -> PushPlain(@)]
  /\ FinishFrame

RespondentInserted ==
  /\ pc = "finish"
  /\ \E k \in 1..Len(finish), outcome \in InsertOutcomes :
       /\ finish[k].at = "respondent"
       /\ finish' = [finish EXCEPT ![k] =
                       IF outcome = "data"
                         THEN [@ EXCEPT !.at = "response", !.respondentRow = TRUE]
                       ELSE PushPlain(@)]
  /\ FinishFrame

ResponseInserted ==
  /\ pc = "finish"
  /\ \E k \in 1..Len(finish), outcome \in InsertOutcomes :
       /\ finish[k].at = "response"
       /\ finish' = [finish EXCEPT ![k] =
                       IF outcome # "data" THEN PushPlain(@)
                       ELSE IF @.entries
                         THEN [@ EXCEPT !.at = "answers", !.responseRow = TRUE]
                       ELSE PushWithResponseId([@ EXCEPT !.responseRow = TRUE])]
  /\ FinishFrame

\* an error of the answers insert is only logged; a rejection is caught
AnswersInserted ==
  /\ pc = "finish"
  /\ \E k \in 1..Len(finish), outcome \in InsertOutcomes :
       /\ finish[k].at = "answers"
       /\ finish' = [finish EXCEPT ![k] =
                       CASE outcome = "data" ->
                              PushWithResponseId([@ EXCEPT !.answersSaved = TRUE])
                         [] outcome = "error" -> PushWithResponseId(@)
                         [] OTHER -> PushPlain(@)]
  /\ FinishFrame

InitFinish ==
  /\ pc = "finish"
  /\ IdleLibrary
  /\ NoPageScores /\ NoReport /\ NoLoader /\ NoSubmit /\ NoTake
  /\ finish = <<>>
NextFinish ==
  handleFinish \/ RespondentInserted \/ ResponseInserted \/ AnswersInserted
\* every insert that was sent settles
SpecFinish ==
  /\ InitFinish /\ [][NextFinish]_vars
  /\ WF_vars(RespondentInserted) /\ WF_vars(ResponseInserted)
  /\ WF_vars(AnswersInserted)

(***************************************************************************)
(* Claims about one question's normalized value.                           *)
(***************************************************************************)
\* the loop iterations of the last call, as <<category index, question index>>
StepIdx ==
  UNION {{<<c, i>> : i \in 1..Len(categories[c].questions)} :
           c \in 1..Len(result.cats)}
StepOf(ci) == result.cats[ci[1]].steps[ci[2]]
QuestionOf(ci) == categories[ci[1]].questions[ci[2]]
AnswerOf(ci) == AnsMapGet(answers, QuestionOf(ci).id)
One == FracOfInt(1)
Zero == FracOfInt(0)

\* C1: for every question, every answer (a missing one included) and every raw
\* score, the normalized value computeScores accumulates for the question lies
\* in [0,1].
C1_NormalizedInUnitInterval ==
  pc = "scored" =>
    \A ci \in StepIdx :
      FracLeq(Zero, StepOf(ci).qNorm) /\ FracLeq(StepOf(ci).qNorm, One)

\* a counted question whose raw score lies above its qMax, so that the clamp acts
C1_Witness ==
  /\ pc = "scored"
  /\ \E ci \in StepIdx :
       /\ StepOf(ci).counted
       /\ StepOf(ci).min < StepOf(ci).max
       /\ StepOf(ci).raw > StepOf(ci).max
       /\ StepOf(ci).qNorm = One

\* C3 (as claimed): with treatMissingAsZero = true a scorable question without
\* an answer is counted in the denominator and adds a normalized value of 0,
\* whatever its choice scores are; with treatMissingAsZero = false it is left
\* out of numerator and denominator.
C3_MissingContributesZero ==
  pc = "scored" =>
    \A ci \in StepIdx :
      (QuestionOf(ci).scorable # "false" /\ AnswerOf(ci) = <<>>) =>
        IF Truthy(EffectiveOpts(optsArg).treatMissingAsZero)
          THEN StepOf(ci).counted /\ StepOf(ci).qNorm = Zero
          ELSE ~StepOf(ci).counted

\* C5: for a question whose choice scores all equal one value v, the normalized
\* value is 1 if the raw score is greater than v and 0 otherwise.
C5_DegenerateRange ==
  pc = "scored" =>
    \A ci \in StepIdx :
      LET scores == parseNumberArrayish(QuestionOf(ci).choice_scores)
      IN (scores # <<>> /\ \A k \in 1..Len(scores) : scores[k] = scores[1]) =>
           StepOf(ci).qNorm = (IF StepOf(ci).raw > scores[1] THEN One ELSE Zero)

\* a counted question with equal choice scores and a raw score above them
C5_Witness ==
  /\ pc = "scored"
  /\ \E ci \in StepIdx :
       LET scores == parseNumberArrayish(QuestionOf(ci).choice_scores)
       IN /\ Len(scores) >= 2
          /\ \A k \in 1..Len(scores) : scores[k] = scores[1]
          /\ StepOf(ci).counted
          /\ AnswerOf(ci) # <<>>
          /\ StepOf(ci).raw > scores[1]
          /\ StepOf(ci).qNorm = One

\* the score the editor's list holds at position idx, 0 when it holds none there
EnteredScoreAt(choiceScores, idx) ==
  IF idx >= 1 /\ idx <= Len(choiceScores) /\ choiceScores[idx].t = "num"
    THEN choiceScores[idx].n
    ELSE 0

\* C9 (as claimed): when the answer resolves to the label at index i, the raw
\* score is the score stored at position i of the question's choice scores (0
\* when there is none at position i), for every stored encoding of the scores.
C9_PositionBinding ==
  pc = "scored" =>
    \A ci \in StepIdx :
      LET q == QuestionOf(ci)
          a == AnswerOf(ci)
          idx == SingleIndex(parseArrayish(q.choices), a[1].value)
      IN (q.type \in {"radio", "checkbox"} /\ a # <<>> /\ idx >= 1) =>
           StepOf(ci).raw = EnteredScoreAt(q.choiceScores, idx)

(***************************************************************************)
(* Claims about the lookup of an answer among the choice labels.           *)
(***************************************************************************)
\* the lookup rule as the claims word it: the first label equal to the value,
\* else the first label whose trimmed text equals the trimmed value, else 0
ClaimedIndex(labels, x) ==
  IF IndexOf(labels, x) >= 1 THEN IndexOf(labels, x)
  ELSE FindTrimmed(labels, Trim(x))

RECURSIVE SumAtClaimedIndex(_, _, _)
SumAtClaimedIndex(selected, labels, scores) ==
  IF selected = <<>> THEN 0
  ELSE ScoreAt(scores, ClaimedIndex(labels, Head(selected)))
       + SumAtClaimedIndex(Tail(selected), labels, scores)

\* the orderings of a sequence
Orderings(xs) ==
  {[i \in 1..Len(xs) |-> xs[f[i]]] :
     f \in {g \in [1..Len(xs) -> 1..Len(xs)] :
              \A i, j \in 1..Len(xs) : g[i] = g[j] => i = j}}

IsLabelOf(q, x) == IndexOf(parseArrayish(q.choices), x) >= 1

\* C6 (as claimed): for a multi-choice question the raw score is the sum of
\* the choice scores of the selected labels, the same for every ordering of
\* the selected labels, whether the answer is a list or a ", "-joined string.
C6_MultiChoiceSum ==
  pc = "scored" =>
    \A ci \in StepIdx :
      LET q == QuestionOf(ci)
          a == AnswerOf(ci)
          labels == parseArrayish(q.choices)
          scores == parseNumberArrayish(q.choice_scores)
      IN (q.type = "checkbox" /\ a # <<>>
          /\ \A k \in 1..Len(a[1].selected) : IsLabelOf(q, a[1].selected[k])) =>
           /\ StepOf(ci).raw = SumSelected(a[1].selected, labels, scores)
           /\ \A o \in Orderings(a[1].selected) :
                /\ resolveRawScore(q, <<Answer(q.id, ListValue(o))>>) = StepOf(ci).raw
                /\ resolveRawScore(q, <<Answer(q.id, JoinedValue(o))>>) = StepOf(ci).raw

\* C7 (as claimed): for a multi-choice question every selected label is
\* resolved as for a single-choice question: the exact match among the
\* labels first, then the comparison of the trimmed texts, and it adds 0 only
\* when both fail.
C7_MultiChoiceLookupRule ==
  pc = "scored" =>
    \A ci \in StepIdx :
      LET q == QuestionOf(ci)
          a == AnswerOf(ci)
      IN (q.type = "checkbox" /\ a # <<>>) =>
           StepOf(ci).raw =
             SumAtClaimedIndex(asArrayOfStrings(a[1].value), parseArrayish(q.choices),
                               parseNumberArrayish(q.choice_scores))

\* C8 (as claimed): a single-choice answer resolves to the first label equal
\* to it, else to the first label whose trimmed text equals the trimmed
\* answer, else to nothing and a raw score of 0.
C8_SingleChoiceLookupRule ==
  pc = "scored" =>
    \A ci \in StepIdx :
      LET q == QuestionOf(ci)
          a == AnswerOf(ci)
      IN (q.type = "radio" /\ a # <<>> /\ a[1].value.t = "str") =>
           StepOf(ci).raw =
             ScoreAt(parseNumberArrayish(q.choice_scores),
                     ClaimedIndex(parseArrayish(q.choices), a[1].value.s))

(***************************************************************************)
(* Claims about whole surveys.                                             *)
(***************************************************************************)
\* 100.00 as a count of hundredths
Hundred == 100 * 100

AllPercentsAre(h) ==
  /\ \A t \in DOMAIN result.categoryPercents : result.categoryPercents[t] = h
  /\ result.totalPercent = h

\* every category counts at least one question, and every question counted
\* has a raw score equal to its qMax
EveryCountedAtMax ==
  /\ result.cats # <<>>
  /\ \A c \in 1..Len(result.cats) : result.cats[c].catWeight > 0
  /\ \A ci \in StepIdx : StepOf(ci).counted => StepOf(ci).raw = StepOf(ci).max

Defaulted(switch, default) == IF switch = "undef" THEN default ELSE switch
WithDocumentedDefaults(arg) ==
  Opts(Defaulted(arg.treatMissingAsZero, "true"),
       Defaulted(arg.useQuestionWeights, "false"),
       Defaulted(arg.useCategoryWeights, "false"))

\* C4 (as claimed): a switch the caller does not set takes its documented
\* default (treatMissingAsZero true, the two weight switches false), when the
\* options are omitted and when an options object leaves the switch out: the
\* result is the one computed with those defaults filled in.
C4_DocumentedDefaults ==
  pc = "scored" =>
    LET filled == computeScores(categories, answers, WithDocumentedDefaults(optsArg))
    IN /\ result.categoryPercents = filled.categoryPercents
       /\ result.totalPercent = filled.totalPercent

(***************************************************************************)
(* Claims about the range classifier.                                      *)
(***************************************************************************)
Contains(r, p) == r.min_score <= p /\ p <= r.max_score
NoOverlap ==
  \A i, j \in 1..Len(ranges.xs) :
    i # j => ~\E p \in 0..MaxPercent : Contains(ranges.xs[i], p) /\ Contains(ranges.xs[j], p)
\* range j follows range i with a gap and no range in between
GapBetween(i, j) ==
  /\ ranges.xs[i].max_score < ranges.xs[j].min_score
  /\ \A k \in 1..Len(ranges.xs) :
       ~\E p \in (ranges.xs[i].max_score + 1)..(ranges.xs[j].min_score - 1) :
          Contains(ranges.xs[k], p)

\* C10 (as claimed): a percentage equal to the min_score or max_score of a
\* range is classified into that range, and every percentage strictly between
\* the max_score of a range and the min_score of the next one, the two being
\* separated by a gap and not overlapping, gets no match.
C10_BoundariesAndGaps ==
  (pc = "picked" /\ NoOverlap) =>
    /\ \A i \in 1..Len(ranges.xs) :
         percent \in {100 * ranges.xs[i].min_score, 100 * ranges.xs[i].max_score}
           => picked = i
    /\ \A i, j \in 1..Len(ranges.xs) :
         (/\ GapBetween(i, j)
          /\ 100 * ranges.xs[i].max_score < percent
          /\ percent < 100 * ranges.xs[j].min_score) => picked = 0

\* C10 (amended): a percentage equal to the min_score or max_score of a range
\* is classified into the first range of the list that contains it (that
\* range itself when the ranges do not overlap), and a percentage gets no
\* match when its rounded value, Math.round(percentage), lies strictly between
\* the max_score of a range and the min_score of the next one.
C10_BoundariesAndRoundedGaps ==
  pc = "picked" =>
    /\ \A i \in 1..Len(ranges.xs) :
         percent \in {100 * ranges.xs[i].min_score, 100 * ranges.xs[i].max_score}
           => /\ picked >= 1 /\ picked <= i
              /\ Contains(ranges.xs[picked], percent \div 100)
              /\ \A k \in 1..(picked - 1) : ~Contains(ranges.xs[k], percent \div 100)
              /\ NoOverlap => picked = i
    /\ \A i, j \in 1..Len(ranges.xs) :
         (/\ GapBetween(i, j)
          /\ ranges.xs[i].max_score < MathRound(percent)
          /\ MathRound(percent) < ranges.xs[j].min_score) => picked = 0

\* a fractional percentage in the gap between two ranges, rounded into the
\* gap and left without a match
C10_Witness ==
  /\ pc = "picked"
  /\ Len(ranges.xs) = 2
  /\ NoOverlap
  /\ GapBetween(1, 2)
  /\ percent % 100 # 0
  /\ 100 * ranges.xs[1].max_score < percent
  /\ percent < 100 * ranges.xs[2].min_score
  /\ picked = 0

\* the integer nearest to a percentage given in hundredths, halves going up
NearestInteger(h) ==
  CHOOSE n \in 0..(MaxPercent + 1) : 100 * n - 50 <= h /\ h < 100 * n + 50
\* the positions of the supplied ranges that hold the rounded percentage
MatchingRanges ==
  IF IsNullish(ranges) THEN {}
  ELSE {i \in 1..Len(ranges.xs) : Contains(ranges.xs[i], NearestInteger(percent))}

\* C11: pickRange returns the first range, in the order supplied, with
\* min_score <= round(percentage) <= max_score, whatever the order of
\* overlapping ranges, and none when no range matches or the list is empty,
\* null or undefined.
C11_FirstMatchWins ==
  pc = "picked" =>
    IF MatchingRanges = {} THEN picked = 0
    ELSE picked \in MatchingRanges /\ \A i \in MatchingRanges : picked <= i

\* two supplied ranges both hold the rounded percentage, and the first is picked
C11_Witness ==
  /\ pc = "picked"
  /\ MatchingRanges = {1, 2}
  /\ picked = 1

\* a list of ranges that is null or undefined gets no match
C11_WitnessAbsent == pc = "picked" /\ IsNullish(ranges) /\ picked = 0

(***************************************************************************)
(* Claims about what a question adds to its category.                      *)
(***************************************************************************)
\* the types the specification scores: single choice, multiple choice, rating
ScoredTypes == {"radio", "select", "checkbox", "rating"}

\* C12: a question whose type is not single-choice, multi-choice or rating
\* (a text question) never adds to its category's numerator or denominator,
\* whatever its scorable flag.
C12_OtherTypesExcluded ==
  pc = "scored" =>
    \A ci \in StepIdx :
      QuestionOf(ci).type \notin ScoredTypes => ~StepOf(ci).counted

\* a question is eligible when it is not marked non-scorable and it has an
\* answer or missing answers count as zero
Eligible(ci) ==
  /\ QuestionOf(ci).scorable # "false"
  /\ AnswerOf(ci) # <<>> \/ optsArg.treatMissingAsZero = "true"
\* question.weight when useQuestionWeights is on and the weight is a positive
\* number, 1 otherwise
ClaimedQuestionWeight(ci) ==
  IF /\ optsArg.useQuestionWeights = "true"
     /\ QuestionOf(ci).weight # <<>>
     /\ QuestionOf(ci).weight[1] > 0
    THEN QuestionOf(ci).weight[1]
    ELSE 1
\* the sums of normalized x weight and of weight over the eligible questions
\* among the first i questions of category c
RECURSIVE ClaimedAccum(_, _)
ClaimedAccum(c, i) ==
  IF i = 0 THEN Zero
  ELSE FracAdd(ClaimedAccum(c, i - 1),
               IF Eligible(<<c, i>>)
                 THEN FracMul(StepOf(<<c, i>>).qNorm,
                              FracOfInt(ClaimedQuestionWeight(<<c, i>>)))
                 ELSE Zero)
RECURSIVE ClaimedWeight(_, _)
ClaimedWeight(c, i) ==
  IF i = 0 THEN 0
  ELSE ClaimedWeight(c, i - 1)
       + (IF Eligible(<<c, i>>) THEN ClaimedQuestionWeight(<<c, i>>) ELSE 0)
\* 100 x (sum of normalized x weight) / (sum of weight), 0 when nothing is
\* eligible, as an exact fraction
ClaimedCategoryPercent(c) ==
  IF ClaimedWeight(c, Len(categories[c].questions)) = 0 THEN Zero
  ELSE FracDivInt(FracMul(FracOfInt(100),
                          ClaimedAccum(c, Len(categories[c].questions))),
                  ClaimedWeight(c, Len(categories[c].questions)))

\* C13: every category percent equals 100 x (sum of normalized x weight) /
\* (sum of weight) over the eligible questions of the category, rounded to
\* two decimals, the weight being question.weight when useQuestionWeights is
\* on and the weight is a positive number and 1 otherwise; it is 0 when no
\* question is eligible.
C13_CategoryPercent ==
  pc = "scored" =>
    \A c \in 1..Len(categories) :
      result.categoryPercents[categories[c].title]
        = toFixed2(ClaimedCategoryPercent(c))

\* two unweighted questions normalized to 1 and 0 give 50.00
C13_Witness ==
  /\ pc = "scored"
  /\ optsArg.useQuestionWeights = "false"
  /\ Len(categories) = 1
  /\ Len(categories[1].questions) = 2
  /\ Eligible(<<1, 1>>) /\ StepOf(<<1, 1>>).qNorm = One
  /\ Eligible(<<1, 2>>) /\ StepOf(<<1, 2>>).qNorm = Zero
  /\ result.categoryPercents[categories[1].title] = 50 * 100

\* a weight of 0 counted as 1 with useQuestionWeights on: weights 0 and 2,
\* normalized 1 and 0, give 33.33
C13_WitnessDefaultWeight ==
  /\ pc = "scored"
  /\ optsArg.useQuestionWeights = "true"
  /\ Len(categories) = 1
  /\ Len(categories[1].questions) = 2
  /\ Eligible(<<1, 1>>) /\ QuestionOf(<<1, 1>>).weight = <<0>>
  /\ StepOf(<<1, 1>>).qNorm = One
  /\ Eligible(<<1, 2>>) /\ QuestionOf(<<1, 2>>).weight = <<2>>
  /\ StepOf(<<1, 2>>).qNorm = Zero
  /\ result.categoryPercents[categories[1].title] = 3333

(***************************************************************************)
(* Claims about the total.                                                 *)
(***************************************************************************)
\* category.weight when useCategoryWeights is on and the weight is a positive
\* number, 1 otherwise
ClaimedCategoryWeight(c) ==
  IF /\ optsArg.useCategoryWeights = "true"
     /\ categories[c].weight # <<>>
     /\ categories[c].weight[1] > 0
    THEN categories[c].weight[1]
    ELSE 1
\* the sums of category percent x category weight and of category weight over
\* the first c categories
RECURSIVE ClaimedTotalAccum(_)
ClaimedTotalAccum(c) ==
  IF c = 0 THEN Zero
  ELSE FracAdd(ClaimedTotalAccum(c - 1),
               FracMul(ClaimedCategoryPercent(c), FracOfInt(ClaimedCategoryWeight(c))))
RECURSIVE ClaimedTotalWeight(_)
ClaimedTotalWeight(c) ==
  IF c = 0 THEN 0 ELSE ClaimedTotalWeight(c - 1) + ClaimedCategoryWeight(c)

\* C14: the total percent is the weighted average of the category percents
\* over all the categories, rounded to two decimals, the weight of a category
\* being category.weight when useCategoryWeights is on and the weight is
\* positive and 1 otherwise; a category without eligible questions counts as
\* 0 in the average, and the total is 0 when there are no categories.
C14_TotalPercent ==
  pc = "scored" =>
    result.totalPercent =
      IF Len(categories) = 0 THEN 0
      ELSE toFixed2(FracDivInt(ClaimedTotalAccum(Len(categories)),
                               ClaimedTotalWeight(Len(categories))))

\* an empty category and a category at 100.00 give a total of 50.00
C14_Witness ==
  /\ pc = "scored"
  /\ Len(categories) = 2
  /\ categories[1].questions = <<>>
  /\ categories[2].questions # <<>>
  /\ result.categoryPercents[categories[2].title] = Hundred
  /\ result.totalPercent = 50 * 100

\* category weights 1 (a weight of 0) and 3 over category percents 33.33...
\* and 66.66...: the total is 58.33, from the unrounded category percents
C14_WitnessWeighted ==
  /\ pc = "scored"
  /\ Len(categories) = 2
  /\ optsArg.useCategoryWeights = "true"
  /\ categories[1].weight = <<0>> /\ categories[2].weight = <<3>>
  /\ result.categoryPercents[categories[1].title] = 3333
  /\ result.categoryPercents[categories[2].title] = 6667
  /\ result.totalPercent = 5833

(***************************************************************************)
(* Claims about the bounds of the result.                                  *)
(***************************************************************************)
\* every category percent and the total lie in [0,100]
PercentsInRange ==
  /\ \A t \in DOMAIN result.categoryPercents :
       0 <= result.categoryPercents[t] /\ result.categoryPercents[t] <= Hundred
  /\ 0 <= result.totalPercent /\ result.totalPercent <= Hundred
\* question.weight is a positive number
HasPositiveWeight(ci) == QuestionOf(ci).weight # <<>> /\ QuestionOf(ci).weight[1] > 0

\* C15 (as claimed): every category percent and the total percent lie in
\* [0,100], and the total percent is 0 when no category holds a scorable
\* question with a positive weight.
C15_BoundsAndZeroWithoutPositiveWeight ==
  pc = "scored" =>
    /\ PercentsInRange
    /\ (~\E ci \in StepIdx :
           QuestionOf(ci).scorable # "false" /\ HasPositiveWeight(ci))
         => result.totalPercent = 0

\* C15 (amended): every category percent and the total percent lie in
\* [0,100], and the total percent is 0 when no category holds an eligible
\* question (scorable, and answered or counted as zero); a weight that is
\* absent or not positive counts as 1 and does not exclude the question.
C15_BoundsAndZeroWithoutEligible ==
  pc = "scored" =>
    /\ PercentsInRange
    /\ (~\E ci \in StepIdx : Eligible(ci)) => result.totalPercent = 0

\* questions exist, none is eligible, and the total is 0
C15_Witness ==
  /\ pc = "scored"
  /\ StepIdx # {}
  /\ ~\E ci \in StepIdx : Eligible(ci)
  /\ result.totalPercent = 0

(***************************************************************************)
(* Claims about the choice-data parser.                                    *)
(***************************************************************************)
\* a text that is the JSON encoding of an array
IsJsonArrayText(s) == JsonParse(Trim(s)) # <<>> /\ JsonParse(Trim(s))[1].t = "arr"
\* a text that is the JSON encoding of one string
IsJsonStringText(s) == StartsWith(Trim(s), QUOTE) /\ JsonParse(Trim(s)) # <<>>
\* a text delimited by braces
IsBraceList(s) == StartsWith(Trim(s), "{") /\ EndsWith(Trim(s), "}")
\* the input is no native array, no JSON array and no brace-delimited list
NotAList ==
  /\ input.t # "arr"
  /\ input.t = "str" => ~IsJsonArrayText(input.s) /\ ~IsBraceList(input.s)

IsBraceEncoding == input = Encode("pg", StrList(encodedLabels))

\* C17: for every sequence of labels, parsing its brace-delimited,
\* double-quoted, comma-separated encoding yields the sequence that parsing
\* its JSON array encoding yields: the labels themselves, in order, with
\* nothing of the encoding left in them.
C17_BraceEncodingParsesAsJson ==
  (pc = "parsed" /\ IsBraceEncoding) =>
    /\ parsed = parseArrayish(Encode("json", StrList(encodedLabels)))
    /\ parsed = encodedLabels

\* the same, for labels without a double quote
C17_QuoteFreeLabelsRoundTrip ==
  (/\ pc = "parsed"
   /\ IsBraceEncoding
   /\ \A i \in 1..Len(encodedLabels) : IndexFrom(encodedLabels[i], QUOTE, 1) = 0) =>
    /\ parsed = parseArrayish(Encode("json", StrList(encodedLabels)))
    /\ parsed = encodedLabels

\* the anomalies of a question's data: it has no answer; its type is rating and
\* the answer is no number; the answer matches a label at a position where
\* the choice scores hold nothing
HasNoAnswer(ci) == AnswerOf(ci) = <<>>
HasNonNumericRating(ci) ==
  /\ AnswerOf(ci) # <<>>
  /\ toLowerCase(QuestionOf(ci).type) = "rating"
  /\ NumberOf(FirstOrSelf(AnswerOf(ci)[1].value)) = <<>>
HasIndexBeyondScores(ci) ==
  /\ AnswerOf(ci) # <<>>
  /\ toLowerCase(QuestionOf(ci).type) = "radio"
  /\ SingleIndex(parseArrayish(QuestionOf(ci).choices), AnswerOf(ci)[1].value)
       > Len(parseNumberArrayish(QuestionOf(ci).choice_scores))
IsAnomalous(ci) ==
  HasNoAnswer(ci) \/ HasNonNumericRating(ci) \/ HasIndexBeyondScores(ci)

\* C18 (as claimed): a counted question with a missing answer, a non-numeric
\* rating value or a matched index beyond the end of its choice scores gets
\* the raw score 0 and the normalized score 0, and the result is produced.
C18_AnomaliesDegradeToZero ==
  pc = "scored" =>
    /\ result # NoResult
    /\ \A ci \in StepIdx :
         (StepOf(ci).counted /\ IsAnomalous(ci)) =>
           StepOf(ci).raw = 0 /\ StepOf(ci).qNorm = Zero

\* the part that holds: the raw score of such a question is 0, and so is its
\* normalized score when none of its choice scores is negative
C18_AnomaliesScoreRawZero ==
  pc = "scored" =>
    \A ci \in StepIdx :
      (StepOf(ci).counted /\ IsAnomalous(ci)) =>
        /\ StepOf(ci).raw = 0
        /\ StepOf(ci).min >= 0 => StepOf(ci).qNorm = Zero

\* C19 (as claimed): for every percentage and every list of ranges, the range
\* the report handler's pickRange picks is the range the scoring library's
\* pickRange picks.
C19_ReportPicksLibraryRange ==
  pc = "reported" => reportPicked = picked

\* the same, for percentages without a fractional part
C19_WholePercentsAgree ==
  (pc = "reported" /\ percent % 100 = 0) => reportPicked = picked

\* two stored ranges hold one integer percentage
SharePercentage(a, b) ==
  \E p \in 0..100 :
    /\ a.min_score <= p /\ p <= a.max_score
    /\ b.min_score <= p /\ p <= b.max_score

\* C20 (as claimed): after any sequence of add, update and delete operations of
\* the range manager, starting from no ranges, no integer percentage of 0..100
\* lies in two different stored ranges.
C20_StoredRangesDisjoint ==
  \A i, j \in 1..Len(scoreRanges) :
    i # j => ~SharePercentage(scoreRanges[i], scoreRanges[j])

\* the part that holds: two stored ranges share at most an end point
C20_StoredRangesShareAtMostAnEnd ==
  \A i, j \in 1..Len(scoreRanges) :
    (i # j /\ scoreRanges[i].min_score <= scoreRanges[j].min_score) =>
      scoreRanges[i].max_score <= scoreRanges[j].min_score

\* the part that holds: an add or update rejected for overlap or for
\* min >= max leaves the list of ranges as it was
C20_RejectedLeavesRangesUnchanged ==
  [][error' \in {"This range overlaps with an existing range",
                 "Maximum score must be greater than minimum score"}
       => scoreRanges' = scoreRanges]_vars

(***************************************************************************)
(* Claims about the score calculation from the stored scores.              *)
(***************************************************************************)
\* the stored score of the answer to q, 0 when there is none
StoredScore(q) ==
  LET a == AnsMapGet(answers, q.id)
  IN IF a = <<>> \/ a[1].score = <<>> THEN 0 ELSE a[1].score[1]

\* the sum over the questions qs of score / max_score, each ratio limited to
\* [0,1] when limited is TRUE
RECURSIVE SumOfRatios(_, _)
SumOfRatios(qs, limited) ==
  IF qs = <<>> THEN Zero
  ELSE LET r == Frac(StoredScore(Head(qs)), Head(qs).max_score[1])
       IN FracAdd(IF limited /\ FracLess(One, r) THEN One
                  ELSE IF limited /\ FracLess(r, Zero) THEN Zero
                  ELSE r,
                  SumOfRatios(Tail(qs), limited))

\* 100 x the mean of the ratios of the questions of a category, 0 without any
ScoreFromRatios(cat, limited) ==
  IF cat.questions = <<>> THEN Zero
  ELSE FracMul(FracDivInt(SumOfRatios(cat.questions, limited), Len(cat.questions)),
               FracOfInt(100))

RECURSIVE SumOfScores(_, _)
SumOfScores(cats, limited) ==
  IF cats = <<>> THEN Zero
  ELSE FracAdd(ScoreFromRatios(Head(cats), limited), SumOfScores(Tail(cats), limited))

\* the last category of the list with the title of category c
IsLastOfTitle(c) ==
  \A d \in (c + 1)..Len(categories) : categories[d].title # categories[c].title

\* the categories whose score is kept, from category c on
RECURSIVE KeptFrom(_)
KeptFrom(c) ==
  IF c > Len(categories) THEN <<>>
  ELSE (IF IsLastOfTitle(c) THEN <<categories[c]>> ELSE <<>>) \o KeptFrom(c + 1)

C21_WitnessPerfect ==
  /\ pc = "shown"
  /\ Len(categories) = 2 /\ categories[1].title # categories[2].title
  /\ \A c \in 1..2 : Len(categories[c].questions) >= 1
  /\ \A t \in DOMAIN pageScores.categoryPercents :
       pageScores.categoryPercents[t] = FracOfInt(100)
  /\ pageScores.totalPercent = FracOfInt(100)
SomeTitleShared ==
  \E c, d \in 1..Len(categories) : c # d /\ categories[c].title = categories[d].title

\* C22: when two categories share a title, categoryPercents holds one entry
\* for that title, the percent of the last such category in list order, and
\* totalPercent is still the weighted average over all the categories.
C22_SharedTitleKeepsLast ==
  (pc = "scored" /\ SomeTitleShared) =>
    /\ DOMAIN result.categoryPercents
         = {categories[c].title : c \in 1..Len(categories)}
    /\ \A c \in 1..Len(categories) :
         IsLastOfTitle(c) =>
           result.categoryPercents[categories[c].title]
             = toFixed2(ClaimedCategoryPercent(c))
    /\ result.totalPercent
         = toFixed2(FracDivInt(ClaimedTotalAccum(Len(categories)),
                               ClaimedTotalWeight(Len(categories))))

\* two categories under one title, the first at 100.00 and the last at 0.00:
\* the entry is 0.00 and the total 50.00
C22_Witness ==
  /\ pc = "scored"
  /\ Len(categories) = 2
  /\ categories[1].title = categories[2].title
  /\ optsArg.useCategoryWeights = "false"
  /\ ClaimedCategoryPercent(1) = FracOfInt(100)
  /\ ClaimedCategoryPercent(2) = Zero
  /\ categories[2].questions # <<>>
  /\ result.categoryPercents = [t \in {categories[1].title} |-> 0]
  /\ result.totalPercent = 50 * 100

(***************************************************************************)
(* Claims about the stored score of an answer row.                         *)
(***************************************************************************)
\* the answer rows with every score column emptied
WithoutScores(answs) == [k \in 1..Len(answs) |-> [answs[k] EXCEPT !.score = <<>>]]
SamePercents(a, b) ==
  a.categoryPercents = b.categoryPercents /\ a.totalPercent = b.totalPercent

\* C25: two answer lists that differ only in their score fields give the same
\* categoryPercents and the same totalPercent.
C25_StoredScoreNotRead ==
  pc = "scored" =>
    SamePercents(result, computeScores(categories, WithoutScores(answers), optsArg))

\* an answer row whose stored score is 9 while its value scores 2 of 2: the
\* category is at 100.00
C25_Witness ==
  /\ pc = "scored"
  /\ \E k \in 1..Len(answers) : answers[k].score = <<9>>
  /\ \E ci \in StepIdx :
       /\ StepOf(ci).counted
       /\ AnswerOf(ci) # <<>> /\ AnswerOf(ci)[1].score = <<9>>
       /\ StepOf(ci).raw = 2
  /\ result.totalPercent = Hundred

(***************************************************************************)
(* Claims about the report-generation handler.                             *)
(***************************************************************************)
Responded == pc = "generate" /\ report.at = "done"

\* C23: the report URL is saved on the respondent and the email is sent only
\* after the PDF has been uploaded; when the upload fails the handler responds
\* 500, has not updated the respondent and has sent no email.
C23_SaveAndMailOnlyAfterUpload ==
  pc = "generate" =>
    /\ (report.updateCalled \/ report.mailCalled) => report.uploaded
    /\ (report.at = "done" /\ report.thrownAt = "upload") =>
         /\ report.status = 500
         /\ ~report.uploaded
         /\ ~report.updateCalled /\ ~report.saved
         /\ ~report.mailCalled /\ ~report.emailSent

\* the upload failed and the handler has responded
C23_WitnessUploadFailed == Responded /\ report.thrownAt = "upload"
\* the URL was saved and the email sent
C23_Witness ==
  Responded /\ report.uploaded /\ report.saved /\ report.mailCalled /\ report.emailSent

\* C24: once the PDF is uploaded the handler responds 200 with success true and
\* the serveUrl, whatever the update and the email did; when the email failed,
\* was not confirmed or was skipped, emailSent is false and emailMessage says so.
C24_BestEffortNeverFails ==
  (Responded /\ report.uploaded) =>
    /\ report.status = 200 /\ report.success /\ report.serveUrl
    /\ report.emailSent <=> report.emailMessage = "Email sent."
    /\ ~report.emailSent =>
         report.emailMessage \in {"Email failed", "Email not confirmed sent.",
                                  "Email skipped: MAIL_HOST not set."}
    /\ ~report.req.mailHost =>
         report.emailMessage = "Email skipped: MAIL_HOST not set."

\* the update failed and the email failed, and the response is a success
C24_Witness ==
  /\ Responded /\ report.uploaded
  /\ report.updateCalled /\ ~report.saved
  /\ report.mailCalled /\ report.emailMessage = "Email failed"
  /\ report.status = 200

\* C26: every browser obtained from launchBrowser is closed before the handler
\* sends its response, on the success path and on every failure path.
C26_BrowserClosedAtResponse == Responded => report.browsers = 0

\* newPage, setContent or pdf threw and the response was sent
C26_WitnessThrownWithBrowser ==
  Responded /\ report.thrownAt \in {"newPage", "setContent", "pdf"}

(***************************************************************************)
(* Claims about the results page's loading effect.                         *)
(***************************************************************************)
\* run k takes a step after it was cancelled
StaleStep(k) ==
  /\ k \in DOMAIN loader.runs
  /\ loader.runs[k].cancelled
  /\ loader'.runs[k].at # loader.runs[k].at

\* C27: a step of a run that was cancelled updates nothing of the page state:
\* not the survey, not the loaded data, not the error, not loading.
C27_StaleRunUpdatesNothing ==
  [][\A k \in 1..MaxRuns : StaleStep(k) => PageState(loader') = PageState(loader)]_vars

\* a step of a cancelled run leaves the survey, the loaded data and loading
C27_StaleRunKeepsDataAndLoading ==
  [][\A k \in 1..MaxRuns :
       StaleStep(k) => /\ loader'.survey = loader.survey
                       /\ loader'.loaded = loader.loaded
                       /\ loader'.loading = loader.loading]_vars

\* the error shown is that of a run that was cancelled before it failed,
\* while the run that replaced it is still loading
C27_WitnessStaleError ==
  /\ pc = "loader"
  /\ Len(loader.runs) = 2
  /\ loader.error = 1
  /\ loader.runs[1].cancelled /\ loader.runs[2].at # "done"
  /\ loader.loading

(***************************************************************************)
(* Claims about the take-survey page's handleSubmit.                       *)
(***************************************************************************)
CallsInProgress == {k \in 1..Len(submit.calls) : InProgress(submit.calls[k])}
CallsSucceeded == {k \in 1..Len(submit.calls) : submit.calls[k].at = "succeeded"}

\* C28: at most one call of handleSubmit is in progress; a call made while
\* another is in progress returns and inserts no row; the guard is set exactly
\* while a call is in progress or after one has succeeded.
C28_SubmissionsNeverConcurrent ==
  pc = "submit" =>
    /\ Cardinality(CallsInProgress) <= 1
    /\ \A k \in 1..Len(submit.calls) :
         submit.calls[k].busy =>
           /\ submit.calls[k].at = "returned"
           /\ ~submit.calls[k].respondent
           /\ ~submit.calls[k].response
           /\ ~submit.calls[k].answers
    /\ submit.submittingRef <=> (CallsInProgress # {} \/ CallsSucceeded # {})
    /\ Cardinality(CallsSucceeded) <= 1

\* a call failed and released the guard, a retry is in progress, and a call
\* made meanwhile has returned
C28_Witness ==
  /\ pc = "submit"
  /\ Len(submit.calls) = 3
  /\ submit.calls[1].at = "failed" /\ submit.calls[1].respondent
  /\ submit.calls[2].at = "answers"
  /\ submit.calls[3].at = "returned" /\ submit.calls[3].busy

(***************************************************************************)
(* Claims about the active question index of TakeSurveyPage.               *)
(***************************************************************************)
\* C29: the active question index satisfies 0 <= i <= flatQs.length - 1 after
\* any sequence of picks, also when a pick is handled before the deferred
\* advance of an earlier pick was applied.
C29_IndexInRange == pc = "take" => (0 <= take.i /\ take.i <= take.n - 1)

\* the index stays in range as long as no pick was handled with a timer pending
C29_IndexInRangeWithoutOverlap ==
  (pc = "take" /\ ~take.overlapped) => (0 <= take.i /\ take.i <= take.n - 1)

\* two picks on the question before the last one, both advances applied: no
\* current question, and the last question was never shown
C29_WitnessPastTheEnd ==
  /\ pc = "take"
  /\ take.n >= 2
  /\ take.i = take.n
  /\ (take.n - 1) \notin take.answered
  /\ take.finishes = 0

(***************************************************************************)
(* Claims about handleFinish.                                              *)
(***************************************************************************)
FinishInvoked(k) == pc = "finish" /\ Len(finish) >= k
FinishEnded(k) == FinishInvoked(k) /\ finish[k].at = "done"
NavigatesAtMostOnce ==
  \A k \in 1..Len(finish) :
    /\ finish[k].pushes <= 1
    /\ finish[k].at = "done" <=> finish[k].pushes = 1
    /\ finish[k].withResponseId =>
         (finish[k].respondentRow /\ finish[k].responseRow)

\* C30: every invocation of handleFinish ends, having navigated exactly once,
\* and its navigation carries a responseId only if the respondent row and the
\* response row were created.
C30_FinishNavigatesOnce ==
  /\ [](pc = "finish" => NavigatesAtMostOnce)
  /\ \A k \in 1..MaxFinishes : FinishInvoked(k) ~> FinishEnded(k)

\* the answers insert returned an error and the page went on with a responseId
C30_Witness ==
  /\ FinishEnded(1)
  /\ finish[1].entries /\ ~finish[1].answersSaved
  /\ finish[1].withResponseId /\ finish[1].pushes = 1

\* both rows were created, the answers insert rejected: on without a responseId
C30_WitnessCaught ==
  /\ FinishEnded(1)
  /\ finish[1].respondentRow /\ finish[1].responseRow
  /\ ~finish[1].withResponseId /\ finish[1].pushes = 1

=============================================================================
